---- MODULE Spec2Model ----
(***************************************************************************)
(* The-FollowUp: claim lifecycle and follow-up scheduling                  *)
(* (service/scripts/update_promises.py), the TTL work leases               *)
(* (service/util/locks.py) and the claim extraction stage                  *)
(* (service/scripts/claim_process.py) as state machines over the document  *)
(* store.                                                                  *)
(*                                                                         *)
(* Dates are day numbers (day 0 is the first pipeline day of a behaviour). *)
(* Datetimes are instants counted in hours; the pipeline zone is the fixed *)
(* offset UTC-5, so local midnight of day d is the instant 24*d + 5.       *)
(* Every store call is taken to succeed unless an action says otherwise    *)
(* (the insert of an Update row and the model call may fail).              *)
(***************************************************************************)
EXTENDS Integers, Sequences, FiniteSets, TLC

VARIABLES
    today,      \* pipeline_today(): PIPELINE_RUN_DATE if set, else the UTC-5 date
    wallday,    \* today_utc_minus_5(): the date of the wall clock in fixed UTC-5
    hour,       \* now_utc_minus_5().hour of the current run slot
    claims,     \* silver_claims: claim id -> row
    followups,  \* silver_followups: sequence of rows, _id = position
    updates,    \* silver_updates: sequence of rows, _id = position
    pc,         \* update_promises worker -> position in main()
    promises,   \* worker -> promises group read by get_claim_groups()
    reqs,       \* worker -> request_lines still to be handled, with mapping
    ap,         \* worker -> locals of the running ensure_full_schedule_for_claim
    runs,       \* number of update_promises runs started so far
    snap,       \* history: pipeline date and store sizes when the last run ended
    clock,      \* UTC wall clock in seconds, read by _now_utc()
    ticks,      \* number of clock steps taken so far
    lock,       \* bronze_links: article id -> its claimproc_lock field
    lnow,       \* worker -> locals of the acquire_lock call it is inside
    grants,     \* history: the leases acquire_lock has granted
    last,       \* history: the last find_one_and_update of acquire_lock
    articles,   \* bronze_links: article id -> its claim_processed field
    xpc,        \* claim_process worker -> position in run_batch_process()
    cursor,     \* worker -> documents of its find() cursor not yet visited
    docs,       \* worker -> documents it locked and still has to apply
    xclaims,    \* silver_claims rows inserted by claim extraction
    xruns,      \* number of run_batch_process runs started so far
    fin,        \* arguments of the pure function under study
    fout,       \* the function applied last and the value it returned
    bclock,     \* time.time() of the process polling a batch, in seconds
    ppc,        \* position of poll_batch_with_fallback
    completed,  \* request_counts.completed of the batch at the service
    total,      \* the total _extract_progress uses (0: none known)
    status,     \* the status the last retrieve returned
    last_progress_ts,
    last_ratio, \* a fraction [num, den]
    hard_stop_ts,
    on_timeout_calls,   \* how often the on_timeout callback has run
    presult,    \* what poll_batch_with_fallback returned or raised
    seen_ratio, \* history: the ratio seen by the previous poll
    increase_ts,    \* history: time of the last poll that saw the ratio increase
    edocs,      \* enrich_articles.run: the articles it locked and put in the batch
    epc,        \* position of enrich_articles.run
    job,        \* status of the batch job at the provider
    cancel_calls,   \* history: batches.cancel calls made, and whether the last one raised
    enrich_calls,   \* history: article id -> number of _enrich (Mode B) calls
    etodo,      \* articles the loop of _fallback_enrich or of the apply path has left
    applied,    \* history: articles the Mode A apply loop has handled
    enriched,   \* articles whose enrichment fields are set in bronze_links
    enrich_lock,    \* articles whose enrich_lock field is present
    fstore,     \* silver_followups as dedupe_followups.py sees it: a set of rows with _id
    dpc,        \* position of dedupe()
    dgroups,    \* duplicate groups the loop of dedupe() has left
    dry_run,    \* the dry_run argument
    dorig,      \* history: silver_followups when dedupe() was called
    roundups,   \* silver_roundups
    rpc,        \* position of each generate_roundups worker
    rtoday,     \* pipeline_today() of each worker's run
    periods,    \* the periods each worker's loop has left
    rruns,      \* generate_roundups runs started
    spc,        \* position of run_with_search
    text_format,    \* a schema was passed
    attempt,    \* the attempt under way, 1..3
    turn,       \* model turns of the attempt so far
    had_tool_call,  \* the last turn contained a function call
    final_text, \* text of the last response: "" or "text"
    parsed_obj, \* the parsed object of the attempt, or None
    n_parse,    \* responses.parse calls of the attempt
    n_finalize, \* finalize calls of the attempt
    messages,   \* output items and tool outputs appended to the conversation
    pending,    \* function_call items of the response not yet handled
    requests    \* the requests of the attempt sent to the client so far

updVars == <<today, wallday, hour, claims, followups, updates, pc, promises, reqs, ap, runs, snap>>
leaseVars == <<clock, ticks, lock, lnow, grants, last>>
extractVars == <<articles, xpc, cursor, docs, xclaims, xruns>>
pureVars == <<fin, fout>>
pollVars == <<bclock, ppc, completed, total, status, last_progress_ts, last_ratio, hard_stop_ts,
              on_timeout_calls, presult, seen_ratio, increase_ts>>
enrichVars == <<edocs, epc, job, cancel_calls, enrich_calls, etodo, applied, enriched, enrich_lock>>
coreVars == <<updVars, leaseVars, extractVars, pureVars, pollVars>>
dedupeVars == <<fstore, dpc, dgroups, dry_run, dorig>>
roundVars == <<roundups, rpc, rtoday, periods, rruns>>
toolVars == <<messages, pending, requests>>
searchVars == <<spc, text_format, attempt, turn, had_tool_call, final_text, parsed_obj,
                n_parse, n_finalize, toolVars>>
restVars == <<enrichVars, dedupeVars, roundVars, searchVars>>
notEnrich == <<coreVars, dedupeVars, roundVars, searchVars>>
notDedupe == <<coreVars, enrichVars, roundVars, searchVars>>
notRound == <<coreVars, enrichVars, dedupeVars, searchVars>>
notSearch == <<coreVars, enrichVars, dedupeVars, roundVars>>
vars == <<coreVars, restVars>>

----------------------------------------------------------------------------
(* Bounds of the model *)

MaxDay == 1
MaxRuns == 2
MaxUpdates == 2
MaxFollowups == 3
MaxDate == 2
MaxTicks == 3
MaxExtractRuns == 2
MaxClaims == 2
MaxSteps == 1

(* Constants of the program *)

LongSpanDays == 90
ShortSpanDays == 14
CadenceDays == 30
TightPairDays == 5
LastRunHour == 23
EarlyRunHour == 11
TzOffsetHours == 5

Workers == {1, 2}
ClaimIds == {1, 2}
Articles == {1, 2}

(* Optional values: None is the empty tuple, Some(x) the 1-tuple *)
None == <<>>
Some(x) == <<x>>
IsSome(o) == Len(o) = 1
Val(o) == o[1]

----------------------------------------------------------------------------
(* util/mongo.py normalize_dates and the clock *)

\* a plain date becomes local midnight with tzinfo UTC-5 (an instant in hours)
normalize_dates(d) == 24 * d + TzOffsetHours

\* a naive datetime (wall-clock hours) gets tzinfo UTC-5 attached, unshifted
normalize_datetime(wall) == wall + TzOffsetHours

\* datetime.datetime.utcnow(): naive UTC wall clock of the current slot
utcnow == 24 * wallday + hour + TzOffsetHours

----------------------------------------------------------------------------
(* update_promises.py: pure helpers *)

\* str.lower() on the verdict strings of the model
lower(v) ==
    CASE v = "True" -> "true"
      [] v = "False" -> "false"
      [] v = "Unclear" -> "unclear"
      [] OTHER -> v

_is_terminal_verdict(v) == lower(v) \in {"true", "false", "complete", "failed"}

RECURSIVE IntervalLoop(_, _)
IntervalLoop(update_date, t) ==
    IF update_date < t
    THEN IF update_date + CadenceDays = t
         THEN "REGULAR_INTERVAL"
         ELSE IntervalLoop(update_date + CadenceDays, t)
    ELSE "NO_UPDATE"

claim_needs_update(claim, t) ==
    LET end == Val(claim.completion_condition_date)
        start == claim.article_date
        span == end - start
    IN  IF t >= end THEN "ENDPOINT"
        ELSE IF span > LongSpanDays THEN IntervalLoop(start + CadenceDays, t)
        ELSE IF span <= ShortSpanDays
             THEN (IF end = t THEN "ENDPOINT" ELSE "NO_UPDATE")
        ELSE IF start + (span \div 2) = t THEN "REGULAR_INTERVAL" ELSE "NO_UPDATE"

\* the while loop left after its first iteration
StepLoop_once(step, completion, schedule) ==
    IF step < completion THEN Append(schedule, step) ELSE schedule

RECURSIVE StepLoop(_, _, _)
StepLoop(step, completion, schedule) ==
    IF step < completion
    THEN StepLoop(step + CadenceDays, completion, Append(schedule, step))
    ELSE schedule

DropPenultimate(s) ==
    [i \in 1..(Len(s) - 1) |-> IF i < Len(s) - 1 THEN s[i] ELSE s[Len(s)]]

\* mutant: the 30-day branch taken from a span of 90 days on, without the edge rule
compute_followup_schedule_from90(claim) ==
    LET completion == Val(claim.completion_condition_date)
        start == claim.article_date
    IN  IF completion - start >= LongSpanDays
        THEN Append(StepLoop(start + CadenceDays, completion, <<>>), completion)
        ELSE <<completion>>

compute_followup_schedule(claim) ==
    LET completion == Val(claim.completion_condition_date)
        start == claim.article_date
        span == completion - start
    IN  IF span > LongSpanDays
        THEN LET s == Append(StepLoop(start + CadenceDays, completion, <<>>), completion)
             IN  IF Len(s) > 2 /\ s[Len(s)] - s[Len(s) - 1] < TightPairDays
                 THEN DropPenultimate(s)
                 ELSE s
        ELSE IF span <= ShortSpanDays THEN <<completion>>
        ELSE LET midpoint == start + (span \div 2)
             IN  IF midpoint < completion THEN <<midpoint, completion>>
                 ELSE <<completion>>

----------------------------------------------------------------------------
(* silver_followups: queries and inserts *)

\* a filter {claim_id, follow_up_date: x} (op "eq") or {.. $gte: x} (op "gte")
Matches(f, q) ==
    /\ f.claim_id = q.claim_id
    /\ IF q.op = "eq" THEN f.follow_up_date = q.date ELSE f.follow_up_date >= q.date

\* mutant: the count runs on a collection that holds no follow-ups
count_documents_other_collection(coll, q) ==
    0

\* count_documents(filter, limit=1) on silver_followups
count_documents(coll, q) ==
    IF \E i \in 1..Len(coll) : Matches(coll[i], q) THEN 1 ELSE 0

\* model_output is "autoplan" for a row of the full plan, "model" for a
\* follow-up the model asked for
FollowRow(claim_id, d, now, model_output) ==
    [claim_id |-> claim_id,
     follow_up_date |-> normalize_dates(d),
     model_output |-> model_output,
     created_at |-> normalize_datetime(now),
     processed_at |-> None,
     processed_update_id |-> None]

\* mutant: the insert without the deduplicating count
InsertFollowup_unchecked(coll, row) ==
    Append(coll, row)

\* "Deduplicate by (claim_id, follow_up_date)": insert unless a row matches
InsertFollowup(coll, row) ==
    IF count_documents(coll, [claim_id |-> row.claim_id, op |-> "eq",
                              date |-> row.follow_up_date]) = 0
    THEN Append(coll, row)
    ELSE coll

HasFutureFollowup(coll, claim_id, t) ==
    count_documents(coll, [claim_id |-> claim_id, op |-> "gte",
                           date |-> normalize_dates(t)]) > 0

\* mutant: only the dates strictly after today are kept
FutureDates_strict(claim, t) ==
    SelectSeq(compute_followup_schedule(claim), LAMBDA d : d > t)

\* line 345: the dates of the schedule on or after today
FutureDates(claim, t) ==
    SelectSeq(compute_followup_schedule(claim), LAMBDA d : d >= t)

RECURSIVE InsertSchedule(_, _, _, _)
InsertSchedule(coll, claim_id, dates, now) ==
    IF dates = <<>> THEN coll
    ELSE InsertSchedule(InsertFollowup(coll, FollowRow(claim_id, Head(dates), now, "autoplan")),
                        claim_id, Tail(dates), now)

\* one whole call: the follow-up collection it leaves
ensure_full_schedule_for_claim(coll, claim_id, claim, t, now) ==
    IF ~IsSome(claim.completion_condition_date) THEN coll
    ELSE IF t > Val(claim.completion_condition_date) THEN coll
    ELSE IF HasFutureFollowup(coll, claim_id, t) THEN coll
    ELSE InsertSchedule(coll, claim_id, FutureDates(claim, t), now)

----------------------------------------------------------------------------
(* silver_claims rows and the groups of a run *)

ClaimRow(type, start, ccd, fuw, past) ==
    [type |-> type, article_date |-> start, completion_condition_date |-> ccd,
     follow_up_worthy |-> fuw, date_past |-> past]

\* rows as claim extraction stores them (claim_process.py:488-521): date_past
\* is always written, a deadline is kept only on a promise
ClaimTemplates ==
    { ClaimRow("promise", -3, Some(1), TRUE, FALSE),     \* span 4, ends on day 1
      ClaimRow("promise", -8, Some(8), TRUE, FALSE),     \* span 16, midpoint day 0
      ClaimRow("promise", -90, Some(1), TRUE, FALSE),    \* span 91, 30-day step on day 0
      ClaimRow("promise", -5, Some(-1), TRUE, TRUE),     \* deadline passed at extraction
      ClaimRow("promise", 0, None, TRUE, FALSE),         \* promise without a deadline
      ClaimRow("goal", 0, None, TRUE, FALSE),
      ClaimRow("statement", 0, None, TRUE, FALSE) }

\* the claim stores a behaviour starts from: any row beside a goal or a promise
Populations ==
    {cl \in [ClaimIds -> ClaimTemplates] :
        cl[2] \in {ClaimRow("goal", 0, None, TRUE, FALSE),
                   ClaimRow("promise", -3, Some(1), TRUE, FALSE)}}

RECURSIVE SetToSeq(_)
SetToSeq(S) ==
    IF S = {} THEN <<>>
    ELSE LET m == CHOOSE x \in S : \A y \in S : x <= y
         IN  <<m>> \o SetToSeq(S \ {m})

\* main(): "Chump check", update_many promise with null deadline -> goal
ChumpCheck(cl) ==
    [c \in DOMAIN cl |->
        IF cl[c].type = "promise" /\ ~IsSome(cl[c].completion_condition_date)
        THEN [cl[c] EXCEPT !.type = "goal"]
        ELSE cl[c]]

\* mutant: the promises query without its date_past condition
get_claim_groups_all_promises(cl) ==
    [promises |-> SetToSeq({c \in DOMAIN cl : cl[c].type = "promise"}),
     goals_fu |-> SetToSeq({c \in DOMAIN cl : cl[c].type = "goal" /\ cl[c].follow_up_worthy}),
     statements_fu |-> SetToSeq({c \in DOMAIN cl :
                                    cl[c].type = "statement" /\ cl[c].follow_up_worthy})]

get_claim_groups(cl) ==
    [promises |-> SetToSeq({c \in DOMAIN cl : cl[c].type = "promise" /\ ~cl[c].date_past}),
     goals_fu |-> SetToSeq({c \in DOMAIN cl : cl[c].type = "goal" /\ cl[c].follow_up_worthy}),
     statements_fu |-> SetToSeq({c \in DOMAIN cl :
                                    cl[c].type = "statement" /\ cl[c].follow_up_worthy})]

Request(kind, claim_id, update_type, followup_id) ==
    [kind |-> kind, claim_id |-> claim_id, update_type |-> update_type,
     followup_id |-> followup_id]

RECURSIVE _build_requests(_, _, _)
_build_requests(cl, claim_ids, t) ==
    IF claim_ids = <<>> THEN <<>>
    ELSE LET c == Head(claim_ids)
             rest == _build_requests(cl, Tail(claim_ids), t)
         IN  IF ~IsSome(cl[c].completion_condition_date) THEN rest
             ELSE IF claim_needs_update(cl[c], t) = "NO_UPDATE" THEN rest
             ELSE <<Request("promise", c, claim_needs_update(cl[c], t), 0)>> \o rest

GoalRequests(claim_ids) ==
    [i \in 1..Len(claim_ids) |-> Request("goal", claim_ids[i], "none", 0)]

\* mutant: every follow_up_worthy statement is fact-checked on every run
FilterStatements_all(claim_ids, upd) ==
    claim_ids

\* statements that have never been fact-checked (no Update row of the claim)
FilterStatements(claim_ids, upd) ==
    SelectSeq(claim_ids, LAMBDA c : ~\E i \in 1..Len(upd) : upd[i].claim_id = c)

StatementRequests(claim_ids) ==
    [i \in 1..Len(claim_ids) |-> Request("statement", claim_ids[i], "none", 0)]

\* mutant: the follow-up query without the hour gate
DueFollowups_anyhour(coll, t, h) ==
    {i \in 1..Len(coll) : /\ coll[i].follow_up_date = normalize_dates(t)
                          /\ ~IsSome(coll[i].processed_at)}

\* the due follow-ups of the run: drained only when the local hour is 23
DueFollowups(coll, t, h) ==
    IF h < LastRunHour THEN {}
    ELSE {i \in 1..Len(coll) : /\ coll[i].follow_up_date = normalize_dates(t)
                              /\ ~IsSome(coll[i].processed_at)}

FollowupRequests(coll, t, h) ==
    LET ids == SetToSeq(DueFollowups(coll, t, h))
    IN  [i \in 1..Len(ids) |-> Request("followup", coll[ids[i]].claim_id, "none", ids[i])]

----------------------------------------------------------------------------
(* update_promises.py main(): one run of a worker *)

\* what run_with_search and the store can answer for one request
Verdicts(kind) ==
    IF kind = "statement" THEN {"True", "Unclear"} ELSE {"in_progress", "complete"}

Outcome(llm, verdict, follow_up_date, insert_ok) ==
    [llm |-> llm, verdict |-> verdict, follow_up_date |-> follow_up_date,
     insert_ok |-> insert_ok]

\* the call raises (verdict 'failed', no parsed object); or it returns a parsed
\* object with a verdict and an optional follow_up_date; the insert of the
\* Update row may fail
Outcomes(kind, t) ==
    {Outcome("error", "failed", None, TRUE)}
    \cup {Outcome("parsed", v, None, TRUE) : v \in Verdicts(kind)}
    \cup {Outcome("parsed", v, Some(t + 1), ok) :
            v \in {CHOOSE x \in Verdicts(kind) : ~_is_terminal_verdict(x)},
            ok \in BOOLEAN}

\* model_output keeps the follow_up_date of the parsed object; kind and
\* update_type are the mapping entry of the request the row answers
UpdateRow(r, o, now) ==
    [claim_id |-> r.claim_id, verdict |-> o.verdict,
     model_output |-> o.follow_up_date,
     created_at |-> normalize_datetime(now),
     kind |-> r.kind, update_type |-> r.update_type]

\* mutant: the date_past update keyed on the wrong classification
MarksDatePast_regular(r, verdict) ==
    r.kind # "followup" /\ r.update_type = "REGULAR_INTERVAL"

\* lines 822-828: the date_past update after a successful Update insert
MarksDatePast(r, verdict) ==
    r.kind # "followup" /\ r.update_type = "ENDPOINT"

\* lines 830-839: the source follow-up is marked processed; the update_one
\* stores utcnow() as it is (a naive datetime is taken as UTC by the driver)
MarkProcessed(coll, r, update_id, now) ==
    IF r.kind = "followup"
    THEN [coll EXCEPT ![r.followup_id] =
            [@ EXCEPT !.processed_at = Some(now),
                      !.processed_update_id = Some(update_id)]]
    ELSE coll

\* lines 746-799: the follow-up the model asked for, deduplicated
ProposedFollowup(coll, r, o, now) ==
    IF o.llm = "parsed" /\ IsSome(o.follow_up_date)
    THEN InsertFollowup(coll, FollowRow(r.claim_id, Val(o.follow_up_date), now, "model"))
    ELSE coll

\* mutant: the post-insert effects in a finally clause
PostInsertRuns_finally(o) ==
    TRUE

\* lines 812-822: the else clause of the try around insert_one runs only
\* when the insert did not raise
PostInsertRuns(o) ==
    o.insert_ok

StartRun(w) ==
    /\ pc[w] = "idle"
    /\ runs < MaxRuns
    /\ runs' = runs + 1
    /\ LET cl == ChumpCheck(claims)
           g == get_claim_groups(cl)
       IN  /\ claims' = cl
           /\ promises' = [promises EXCEPT ![w] = g.promises]
           /\ reqs' = [reqs EXCEPT ![w] =
                          _build_requests(cl, g.promises, today)
                          \o GoalRequests(g.goals_fu)
                          \o StatementRequests(FilterStatements(g.statements_fu, updates))]
    /\ pc' = [pc EXCEPT ![w] = "autoplan"]
    /\ UNCHANGED <<pureVars, pollVars, restVars, today, wallday, hour, followups, updates, ap, snap, leaseVars, extractVars>>

\* lines 518-531: one call of ensure_full_schedule_for_claim, taken as a whole
Autoplan(w) ==
    /\ pc[w] = "autoplan"
    /\ promises[w] # <<>>
    /\ LET c == Head(promises[w])
           next == ensure_full_schedule_for_claim(followups, c, claims[c], today, utcnow)
       IN  /\ Len(next) <= MaxFollowups
           /\ followups' = next
    /\ promises' = [promises EXCEPT ![w] = Tail(@)]
    /\ UNCHANGED <<pureVars, pollVars, restVars, today, wallday, hour, claims, updates, pc, reqs, ap, runs, snap, leaseVars, extractVars>>

\* lines 533-581: today's unprocessed follow-ups become requests
Drain(w) ==
    /\ pc[w] = "autoplan"
    /\ promises[w] = <<>>
    /\ reqs' = [reqs EXCEPT ![w] = @ \o FollowupRequests(followups, today, hour)]
    /\ pc' = [pc EXCEPT ![w] = "process"]
    /\ UNCHANGED <<pureVars, pollVars, restVars, today, wallday, hour, claims, followups, updates, promises, ap, runs, snap, leaseVars, extractVars>>

\* lines 595-841: one iteration of the loop over request_lines
Process(w) ==
    /\ pc[w] = "process"
    /\ reqs[w] # <<>>
    /\ Len(updates) < MaxUpdates
    /\ LET r == Head(reqs[w])
       IN  \E o \in Outcomes(r.kind, today) :
             LET withFollow == ProposedFollowup(followups, r, o, utcnow)
             IN  /\ Len(withFollow) <= MaxFollowups
                 /\ updates' = IF o.insert_ok
                               THEN Append(updates, UpdateRow(r, o, utcnow))
                               ELSE updates
                 /\ IF PostInsertRuns(o)
                    THEN /\ claims' = IF MarksDatePast(r, o.verdict)
                                      THEN [claims EXCEPT ![r.claim_id].date_past = TRUE]
                                      ELSE claims
                         /\ followups' = MarkProcessed(withFollow, r, Len(updates) + 1, utcnow)
                    ELSE /\ followups' = withFollow
                         /\ claims' = claims
    /\ reqs' = [reqs EXCEPT ![w] = Tail(@)]
    /\ UNCHANGED <<pureVars, pollVars, restVars, today, wallday, hour, pc, promises, ap, runs, snap, leaseVars, extractVars>>

Finish(w) ==
    /\ pc[w] = "process"
    /\ reqs[w] = <<>>
    /\ pc' = [pc EXCEPT ![w] = "idle"]
    /\ snap' = [day |-> Some(today), updates |-> Len(updates), followups |-> Len(followups)]
    /\ UNCHANGED <<pureVars, pollVars, restVars, today, wallday, hour, claims, followups, updates, promises, reqs, ap, runs, leaseVars, extractVars>>

\* the clock moves to the next run slot while no run is under way; no
\* PIPELINE_RUN_DATE is set, so pipeline_today() follows the wall clock
Tick ==
    /\ \A w \in Workers : pc[w] = "idle"
    /\ IF hour < LastRunHour
       THEN hour' = LastRunHour /\ wallday' = wallday
       ELSE wallday < MaxDay /\ hour' = EarlyRunHour /\ wallday' = wallday + 1
    /\ today' = wallday'
    /\ UNCHANGED <<pureVars, pollVars, restVars, claims, followups, updates, pc, promises, reqs, ap, runs, snap, leaseVars, extractVars>>

NoAutoplan == [phase |-> "none", claim_id |-> 0, dates |-> <<>>]

NoAttempt == [worker |-> 0, doc |-> 0, now |-> 0, pre |-> None, ok |-> FALSE]

\* no lease is held, no acquire_lock call is under way
InitLease ==
    /\ clock = 0
    /\ ticks = 0
    /\ lock = [a \in Articles |-> None]
    /\ lnow = [w \in Workers |-> None]
    /\ grants = {}
    /\ last = NoAttempt

\* articles as the scrapers insert them: claim_processed is not set
InitExtract ==
    /\ articles = [a \in Articles |-> None]
    /\ xpc = [w \in Workers |-> "idle"]
    /\ cursor = [w \in Workers |-> <<>>]
    /\ docs = [w \in Workers |-> <<>>]
    /\ xclaims = <<>>
    /\ xruns = 0

NoCall == [fn |-> "none", val |-> <<>>]

\* no pure function is under study
InitPure ==
    /\ fin = [claim |-> ClaimRow("promise", 0, None, TRUE, FALSE), t |-> 0]
    /\ fout = NoCall

\* the fraction completed / total, and -1.0
Fraction(num, den) == [num |-> num, den |-> den]

MinusOne == Fraction(-1, 1)

\* poll_batch has just been entered at time 0, nothing retrieved yet
InitPollVars ==
    /\ bclock = 0
    /\ completed = 0
    /\ status = "none"
    /\ last_progress_ts = 0
    /\ hard_stop_ts = 60 * 60 * 4
    /\ last_ratio = MinusOne
    /\ on_timeout_calls = 0
    /\ presult = "none"
    /\ seen_ratio = None
    /\ increase_ts = 0

\* no batch is being polled
InitNoPoll ==
    /\ InitPollVars
    /\ ppc = "done"
    /\ total = 0

\* enrich_articles.run is not running
InitNoEnrich ==
    /\ edocs = {}
    /\ epc = "done"
    /\ job = "none"
    /\ cancel_calls = [n |-> 0, raised |-> FALSE]
    /\ enrich_calls = <<>>
    /\ etodo = <<>>
    /\ applied = {}
    /\ enriched = {}
    /\ enrich_lock = {}

\* dedupe() is not running
InitNoDedupe ==
    /\ fstore = {}
    /\ dpc = "done"
    /\ dgroups = <<>>
    /\ dry_run = TRUE
    /\ dorig = {}

\* no generate_roundups run has started, silver_roundups is empty
InitNoRoundup ==
    /\ roundups = <<>>
    /\ rpc = [w \in Workers |-> "idle"]
    /\ rtoday = [w \in Workers |-> 0]
    /\ periods = [w \in Workers |-> <<>>]
    /\ rruns = 0

\* an attempt of run_with_search at its first turn
FirstTurn ==
    /\ turn = 0
    /\ had_tool_call = FALSE
    /\ final_text = ""
    /\ parsed_obj = None
    /\ n_parse = 0
    /\ n_finalize = 0

\* run_with_search is not running
InitNoTools ==
    /\ messages = <<>>
    /\ pending = <<>>
    /\ requests = <<>>

InitNoSearch ==
    /\ spc = "returned"
    /\ text_format = FALSE
    /\ attempt = 1
    /\ FirstTurn
    /\ InitNoTools

InitRest ==
    /\ InitNoEnrich
    /\ InitNoDedupe
    /\ InitNoRoundup
    /\ InitNoSearch

InitUpd ==
    /\ today = 0
    /\ wallday = 0
    /\ hour = EarlyRunHour
    /\ followups = <<>>
    /\ updates = <<>>
    /\ pc = [w \in Workers |-> "idle"]
    /\ promises = [w \in Workers |-> <<>>]
    /\ reqs = [w \in Workers |-> <<>>]
    /\ ap = [w \in Workers |-> NoAutoplan]
    /\ runs = 0
    /\ snap = [day |-> None, updates |-> 0, followups |-> 0]

Init ==
    /\ InitUpd
    /\ claims \in Populations
    /\ InitLease
    /\ InitExtract
    /\ InitPure
    /\ InitNoPoll
    /\ InitRest

\* runs executed one at a time
Next ==
    \/ StartRun(1)
    \/ Autoplan(1)
    \/ Drain(1)
    \/ Process(1)
    \/ Finish(1)
    \/ Tick

Spec == Init /\ [][Next]_vars

----------------------------------------------------------------------------
(* Runs with a pipeline date override (--date / PIPELINE_RUN_DATE) *)

\* the operator gives the next run a pipeline date, any up to MaxDate; the
\* wall clock is where it was
SetRunDate ==
    /\ \A w \in Workers : pc[w] = "idle"
    /\ today' \in (0..MaxDate) \ {today}
    /\ UNCHANGED <<pureVars, pollVars, restVars, wallday, hour, claims, followups, updates, pc, promises, reqs, ap, runs, snap,
                   leaseVars, extractVars>>

DatedNext ==
    \/ StartRun(1)
    \/ Autoplan(1)
    \/ Drain(1)
    \/ Process(1)
    \/ Finish(1)
    \/ Tick
    \/ SetRunDate

SpecDated == Init /\ [][DatedNext]_vars

----------------------------------------------------------------------------
(* update_promises.py: two runs at once, ensure_full_schedule_for_claim   *)
(* taken store call by store call                                          *)

\* lines 313-348: the guards, the existence check for a future follow-up and
\* the future dates of the schedule
ApCheck(w) ==
    /\ pc[w] = "autoplan"
    /\ promises[w] # <<>>
    /\ ap[w].phase = "none"
    /\ LET c == Head(promises[w])
           ccd == claims[c].completion_condition_date
       IN  IF \/ ~IsSome(ccd)
              \/ today > Val(ccd)
              \/ HasFutureFollowup(followups, c, today)
              \/ FutureDates(claims[c], today) = <<>>
           THEN ap' = ap
           ELSE ap' = [ap EXCEPT ![w] = [phase |-> "dates", claim_id |-> c,
                                         dates |-> FutureDates(claims[c], today)]]
    /\ promises' = [promises EXCEPT ![w] = Tail(@)]
    /\ UNCHANGED <<pureVars, pollVars, restVars, today, wallday, hour, claims, followups, updates, pc, reqs, runs, snap,
                   leaseVars, extractVars>>

\* line 369: the deduplicating count_documents for the next date
ApCount(w) ==
    /\ ap[w].phase = "dates"
    /\ ap[w].dates # <<>>
    /\ LET row == FollowRow(ap[w].claim_id, Head(ap[w].dates), utcnow, "autoplan")
       IN  IF count_documents(followups, [claim_id |-> row.claim_id, op |-> "eq",
                                          date |-> row.follow_up_date]) = 0
           THEN ap' = [ap EXCEPT ![w].phase = "insert"]
           ELSE ap' = [ap EXCEPT ![w].dates = Tail(@)]
    /\ UNCHANGED <<pureVars, pollVars, restVars, today, wallday, hour, claims, followups, updates, pc, promises, reqs, runs, snap,
                   leaseVars, extractVars>>

\* line 370: insert_one after a count of zero
ApInsert(w) ==
    /\ ap[w].phase = "insert"
    /\ Len(followups) < MaxFollowups
    /\ followups' = Append(followups,
                           FollowRow(ap[w].claim_id, Head(ap[w].dates), utcnow, "autoplan"))
    /\ ap' = [ap EXCEPT ![w].phase = "dates", ![w].dates = Tail(@)]
    /\ UNCHANGED <<pureVars, pollVars, restVars, today, wallday, hour, claims, updates, pc, promises, reqs, runs, snap,
                   leaseVars, extractVars>>

\* line 379: return inserted
ApReturn(w) ==
    /\ ap[w].phase = "dates"
    /\ ap[w].dates = <<>>
    /\ ap' = [ap EXCEPT ![w] = NoAutoplan]
    /\ UNCHANGED <<pureVars, pollVars, restVars, today, wallday, hour, claims, followups, updates, pc, promises, reqs, runs, snap,
                   leaseVars, extractVars>>

\* the loop of lines 518-531 is over
Planned(w) ==
    /\ pc[w] = "autoplan"
    /\ promises[w] = <<>>
    /\ ap[w].phase = "none"
    /\ pc' = [pc EXCEPT ![w] = "planned"]
    /\ UNCHANGED <<pureVars, pollVars, restVars, today, wallday, hour, claims, followups, updates, promises, reqs, ap, runs, snap,
                   leaseVars, extractVars>>

\* two workers run main() up to the end of the autoplan loop, interleaved
ConcNext ==
    \E w \in Workers :
        \/ StartRun(w)
        \/ ApCheck(w)
        \/ ApCount(w)
        \/ ApInsert(w)
        \/ ApReturn(w)
        \/ Planned(w)

SpecConc == Init /\ [][ConcNext]_vars

----------------------------------------------------------------------------
(* util/locks.py: TTL leases on one field of a document *)

ttl_seconds == 3600

\* the clock moves by a second or by a whole ttl
ClockSteps == {1, ttl_seconds}

\* mutant: $lte in place of $lt
LeaseExpired_lte(locked_at, now) ==
    locked_at <= now - ttl_seconds

\* mutant: a lease that outlives its ttl by a second
LeaseExpired_late(locked_at, now) ==
    locked_at < now - ttl_seconds - 1

\* {lock_field.locked_at: {$lt: expire_before}} with expire_before = now - ttl
LeaseExpired(locked_at, now) ==
    locked_at < now - ttl_seconds

\* the query of find_one_and_update matches the document
LockQueryMatches(lk, now) ==
    ~IsSome(lk) \/ LeaseExpired(Val(lk).locked_at, now)

\* {$set: {lock_field: {locked_at: now, owner: owner}}}
LockDoc(now, owner) == Some([locked_at |-> now, owner |-> owner])

\* the documents the workers of SpecLease contend for; the query is keyed by
\* _id, so leases on different documents do not interact
LeaseDocs == {1}

\* line 16: now = _now_utc()
AcquireRead(w) ==
    /\ lnow[w] = None
    /\ \E d \in LeaseDocs : lnow' = [lnow EXCEPT ![w] = Some([doc |-> d, now |-> clock])]
    /\ UNCHANGED <<pureVars, pollVars, restVars, clock, ticks, lock, grants, last, updVars, extractVars>>

\* lines 17-29: find_one_and_update, atomic on the document, and the result
AcquireCAS(w) ==
    /\ IsSome(lnow[w])
    /\ LET d == Val(lnow[w]).doc
           now == Val(lnow[w]).now
           ok == LockQueryMatches(lock[d], now)
       IN  /\ lock' = IF ok THEN [lock EXCEPT ![d] = LockDoc(now, w)] ELSE lock
           /\ grants' = IF ok
                        THEN grants \cup {[worker |-> w, doc |-> d, locked_at |-> now]}
                        ELSE grants
           /\ last' = [worker |-> w, doc |-> d, now |-> now, pre |-> lock[d], ok |-> ok]
    /\ lnow' = [lnow EXCEPT ![w] = None]
    /\ UNCHANGED <<pureVars, pollVars, restVars, clock, ticks, updVars, extractVars>>

Elapse ==
    /\ ticks < MaxTicks
    /\ \E s \in ClockSteps : clock' = clock + s
    /\ ticks' = ticks + 1
    /\ UNCHANGED <<pureVars, pollVars, restVars, lock, lnow, grants, last, updVars, extractVars>>

\* a claim store update_promises has nothing to do for
NoWork == [c \in ClaimIds |-> ClaimRow("statement", 0, None, FALSE, FALSE)]

InitServices ==
    /\ InitUpd
    /\ claims = NoWork
    /\ InitLease
    /\ InitExtract
    /\ InitPure
    /\ InitNoPoll
    /\ InitRest

\* workers call acquire_lock and never release (a worker that crashed)
LeaseNext ==
    \/ \E w \in Workers : AcquireRead(w) \/ AcquireCAS(w)
    \/ Elapse

SpecLease == InitServices /\ [][LeaseNext]_vars

----------------------------------------------------------------------------
(* scripts/claim_process.py: run_batch_process of concurrent workers;      *)
(* acquire_lock is taken as one step here                                  *)

\* line 355: find({'claim_processed': {'$ne': True}}), the documents with the
\* fields they had when the cursor read them
Unprocessed(arts) ==
    LET ids == SetToSeq({a \in Articles : arts[a] # Some(TRUE)})
    IN  [i \in 1..Len(ids) |-> [id |-> ids[i], claim_processed |-> arts[ids[i]]]]

Find(w) ==
    /\ xpc[w] = "idle"
    /\ xruns < MaxExtractRuns
    /\ xruns' = xruns + 1
    /\ cursor' = [cursor EXCEPT ![w] = Unprocessed(articles)]
    /\ docs' = [docs EXCEPT ![w] = <<>>]
    /\ xpc' = [xpc EXCEPT ![w] = "lock"]
    /\ UNCHANGED <<pureVars, pollVars, restVars, articles, xclaims, updVars, leaseVars>>

\* lines 357-364: one iteration of the loop over the cursor
LockNext(w) ==
    /\ xpc[w] = "lock"
    /\ cursor[w] # <<>>
    /\ LET d == Head(cursor[w])
           ok == LockQueryMatches(lock[d.id], clock)
       IN  /\ lock' = IF ok THEN [lock EXCEPT ![d.id] = LockDoc(clock, w)] ELSE lock
           /\ docs' = IF ok THEN [docs EXCEPT ![w] = Append(@, d)] ELSE docs
    /\ cursor' = [cursor EXCEPT ![w] = Tail(@)]
    /\ UNCHANGED <<pureVars, pollVars, restVars, articles, xpc, xclaims, xruns, updVars, clock, ticks, lnow, grants, last>>

\* lines 365-371: return when nothing was locked; claim_processed is set to
\* False on the locked documents that came without the field
Submit(w) ==
    /\ xpc[w] = "lock"
    /\ cursor[w] = <<>>
    /\ IF docs[w] = <<>>
       THEN /\ xpc' = [xpc EXCEPT ![w] = "idle"]
            /\ articles' = articles
       ELSE /\ xpc' = [xpc EXCEPT ![w] = "poll"]
            /\ articles' = [a \in Articles |->
                              IF \E i \in 1..Len(docs[w]) :
                                    docs[w][i].id = a /\ docs[w][i].claim_processed = None
                              THEN Some(FALSE)
                              ELSE articles[a]]
    /\ UNCHANGED <<pureVars, pollVars, restVars, cursor, docs, xclaims, xruns, updVars, leaseVars>>

\* lines 389-425: the batch completes (Mode A applies its output), polling
\* times out (Mode B), or the run ends early with its leases left in place
Poll(w) ==
    /\ xpc[w] = "poll"
    /\ \E o \in {"completed", "timeout", "abort"} :
          /\ xpc' = [xpc EXCEPT ![w] = CASE o = "completed" -> "apply"
                                          [] o = "timeout" -> "fallback"
                                          [] OTHER -> "idle"]
          /\ docs' = IF o = "abort" THEN [docs EXCEPT ![w] = <<>>] ELSE docs
    /\ UNCHANGED <<pureVars, pollVars, restVars, articles, cursor, xclaims, xruns, updVars, leaseVars>>

RECURSIVE ClaimRows(_, _)
ClaimRows(a, n) ==
    IF n = 0 THEN <<>> ELSE <<[article_id |-> a]>> \o ClaimRows(a, n - 1)

\* one record of the batch output (lines 444-547) or one document of the
\* fallback (lines 148-270): a record in error is skipped; otherwise its steps
\* are inserted as claims, the article is marked processed, the lock released
ApplyResult(w) ==
    /\ docs[w] # <<>>
    /\ LET a == Head(docs[w]).id
       IN  \/ UNCHANGED <<xclaims, articles, lock>>
           \/ \E n \in 0..MaxSteps :
                 /\ Len(xclaims) + n <= MaxClaims
                 /\ xclaims' = xclaims \o ClaimRows(a, n)
                 /\ articles' = [articles EXCEPT ![a] = Some(TRUE)]
                 /\ lock' = [lock EXCEPT ![a] = None]
    /\ docs' = [docs EXCEPT ![w] = Tail(@)]
    /\ UNCHANGED <<pureVars, pollVars, restVars, xpc, cursor, xruns, updVars, clock, ticks, lnow, grants, last>>

\* Mode A: the loop over output_lines
ApplyRecord(w) ==
    /\ xpc[w] = "apply"
    /\ ApplyResult(w)

\* Mode B: the loop of _fallback_process_with_responses over docs
FallbackDoc(w) ==
    /\ xpc[w] = "fallback"
    /\ ApplyResult(w)

EndRun(w) ==
    /\ xpc[w] \in {"apply", "fallback"}
    /\ docs[w] = <<>>
    /\ xpc' = [xpc EXCEPT ![w] = "idle"]
    /\ UNCHANGED <<pureVars, pollVars, restVars, articles, cursor, docs, xclaims, xruns, updVars, leaseVars>>

ExtractNext ==
    \/ \E w \in Workers :
          \/ Find(w)
          \/ LockNext(w)
          \/ Submit(w)
          \/ Poll(w)
          \/ ApplyRecord(w)
          \/ FallbackDoc(w)
          \/ EndRun(w)
    \/ Elapse

SpecExtract == InitServices /\ [][ExtractNext]_vars

----------------------------------------------------------------------------
(* Properties of sequential runs (Spec) *)

SameKey(f, g) == f.claim_id = g.claim_id /\ f.follow_up_date = g.follow_up_date

C6_SecondRunAddsNothing ==
    snap.day = Some(today) =>
        /\ Len(updates) = snap.updates
        /\ Len(followups) = snap.followups

Eligible(c) == claims[c].type = "promise" /\ ~claims[c].date_past

C9_TerminalVerdictClosesPromise ==
    \A i \in 1..Len(updates) :
        (updates[i].kind = "promise" /\ _is_terminal_verdict(updates[i].verdict))
        => claims[updates[i].claim_id].date_past

\* C10: date_past = true is absorbing, and a run that starts builds no
\* proactive request (promise, goal or statement request) for a claim that
\* has date_past = true.
C10_TerminalAbsorbing ==
    [][/\ \A c \in ClaimIds : claims[c].date_past => claims'[c].date_past
       /\ \A w \in Workers :
            (pc[w] = "idle" /\ pc'[w] = "autoplan") =>
                \A i \in 1..Len(reqs'[w]) :
                    reqs'[w][i].kind # "followup" => ~claims[reqs'[w][i].claim_id].date_past
      ]_vars

\* a run closed a promise and a later run has built its requests
C10_Witness ==
    /\ runs >= 2
    /\ pc[1] = "autoplan"
    /\ \E i \in 1..Len(updates) :
          /\ updates[i].update_type = "ENDPOINT"
          /\ claims[updates[i].claim_id].date_past

----------------------------------------------------------------------------
(* Properties of concurrent autoplan (SpecConc) *)

\* C2: when two workers autoplan the same promise concurrently, under every
\* interleaving of their existence checks and inserts no two Follow-up rows
\* share the same (claim_id, follow_up_date).
C2_ConcurrentAutoplanUnique ==
    \A i, j \in 1..Len(followups) : i # j => ~SameKey(followups[i], followups[j])

----------------------------------------------------------------------------
(* Properties of the leases (SpecLease) *)

\* locked_at is not older than the clock minus ttl
Unexpired(locked_at) == locked_at >= clock - ttl_seconds

\* C3: under every interleaving of acquire_lock calls, True is never returned
\* while an unexpired lease is present, and no two workers hold leases on the
\* same document that are both inside the ttl window.
C3_OneHolderInsideTtl ==
    /\ (last.ok /\ IsSome(last.pre)) => Val(last.pre).locked_at < last.now - ttl_seconds
    /\ \A g, h \in grants :
          (g.doc = h.doc /\ Unexpired(g.locked_at) /\ Unexpired(h.locked_at))
          => g.worker = h.worker

\* a worker was refused a lease another worker took exactly ttl seconds before
C3_Witness ==
    /\ last.worker # 0
    /\ ~last.ok
    /\ IsSome(last.pre)
    /\ Val(last.pre).owner # last.worker
    /\ last.now - Val(last.pre).locked_at = ttl_seconds

\* C4: a lease that is never released is reclaimable: every acquire_lock
\* attempted more than ttl seconds after its locked_at returns True.
C4_ExpiredLeaseReclaimable ==
    (last.worker # 0 /\ IsSome(last.pre)
        /\ last.now - Val(last.pre).locked_at > ttl_seconds)
    => last.ok

\* a worker took over the lease of another worker one second after its ttl
C4_Witness ==
    /\ last.ok
    /\ IsSome(last.pre)
    /\ Val(last.pre).owner # last.worker
    /\ last.now - Val(last.pre).locked_at = ttl_seconds + 1
    /\ lock[last.doc] = LockDoc(last.now, last.worker)

----------------------------------------------------------------------------
(* Properties of claim extraction (SpecExtract) *)

\* C5: once an article has claim_processed = true, no Claim row referencing
\* it is inserted afterwards, whatever the interleaving of workers, Mode A or
\* Mode B, and whatever leases expire.
C5_NoClaimAfterProcessed ==
    [][\A i \in (Len(xclaims) + 1)..Len(xclaims') :
          articles[xclaims'[i].article_id] # Some(TRUE)]_vars

----------------------------------------------------------------------------
(* Properties of sequential runs (Spec), continued *)

HasUpdate(c) == \E i \in 1..Len(updates) : updates[i].claim_id = c

HasStatementRequest(rs, c) ==
    \E i \in 1..Len(rs) : rs[i].kind = "statement" /\ rs[i].claim_id = c

C12_ProcessedFollowupHasUpdate ==
    \A k \in 1..Len(followups) :
        IsSome(followups[k].processed_at) =>
            /\ IsSome(followups[k].processed_update_id)
            /\ Val(followups[k].processed_update_id) \in 1..Len(updates)
            /\ updates[Val(followups[k].processed_update_id)].created_at
                  >= followups[k].follow_up_date

----------------------------------------------------------------------------
(* The cadence functions of update_promises.py on their own: a promise with
   article_date and completion_condition_date as day numbers, and a run date *)

MaxStart == 1
MaxSpan == 125

CadenceInputs ==
    { [claim |-> ClaimRow("promise", start, Some(start + span), TRUE, FALSE), t |-> t] :
        start \in 0..MaxStart, span \in 0..MaxSpan, t \in 0..MaxSpan }

InitCadence ==
    /\ InitUpd
    /\ claims = NoWork
    /\ InitLease
    /\ InitExtract
    /\ fin \in CadenceInputs
    /\ fout = NoCall
    /\ InitNoPoll
    /\ InitRest

CallSchedule ==
    /\ fout' = [fn |-> "compute_followup_schedule", val |-> compute_followup_schedule(fin.claim)]
    /\ UNCHANGED <<fin, pollVars, restVars, updVars, leaseVars, extractVars>>

CallNeedsUpdate ==
    /\ fout' = [fn |-> "claim_needs_update", val |-> claim_needs_update(fin.claim, fin.t)]
    /\ UNCHANGED <<fin, pollVars, restVars, updVars, leaseVars, extractVars>>

CadenceNext ==
    \/ CallSchedule
    \/ CallNeedsUpdate

SpecCadence == InitCadence /\ [][CadenceNext]_vars

FinStart == fin.claim.article_date
FinEnd == Val(fin.claim.completion_condition_date)
FinSpan == FinEnd - FinStart

\* the dates start+30k, k >= 1, strictly before end, followed by end
CadenceDates(start, end) ==
    LET n == ((end - start) - 1) \div CadenceDays
    IN  [i \in 1..(n + 1) |-> IF i <= n THEN start + CadenceDays * i ELSE end]

\* a list without its last-but-one element
WithoutPenultimate(s) ==
    SubSeq(s, 1, Len(s) - 2) \o <<s[Len(s)]>>

LastStep(start, end) == start + CadenceDays * (((end - start) - 1) \div CadenceDays)

InSeq(x, s) == \E i \in 1..Len(s) : s[i] = x

\* C14: for a span over 90 days, whenever the last 30-day step before end is
\* within 5 days of end (at most 5 days before it), compute_followup_schedule
\* drops that date, so the last two dates of the returned schedule are never
\* within 5 days of each other.
C14_NoTightLastPair ==
    (fout.fn = "compute_followup_schedule" /\ FinSpan > LongSpanDays) =>
        /\ FinEnd - LastStep(FinStart, FinEnd) <= TightPairDays
              => ~InSeq(LastStep(FinStart, FinEnd), fout.val)
        /\ Len(fout.val) >= 2
              => fout.val[Len(fout.val)] - fout.val[Len(fout.val) - 1] > TightPairDays

\* C16: for a promise with a span over 90 days and a pipeline date t strictly
\* before end, claim_needs_update returns REGULAR_INTERVAL if and only if
\* t = start + 30k for some integer k >= 1, and NO_UPDATE otherwise.
C16_RegularIntervalEvery30Days ==
    (fout.fn = "claim_needs_update" /\ FinSpan > LongSpanDays /\ fin.t < FinEnd) =>
        LET onStep == \E k \in 1..(MaxSpan + MaxStart) : fin.t = FinStart + CadenceDays * k
        IN  /\ fout.val = "REGULAR_INTERVAL" <=> onStep
            /\ ~onStep => fout.val = "NO_UPDATE"

----------------------------------------------------------------------------
(* The promise "within 90 days" of an article dated 2025-06-01 (day 0):
   completion_condition_date 2025-08-30 is day 90, 2025-07-01 is day 30,
   2025-07-16 day 45, 2025-07-31 day 60 *)

\* days from 2025-06-01 to the given day of June, July or August 2025
DayNumber(month, day) ==
    (IF month = 6 THEN 0 ELSE IF month = 7 THEN 30 ELSE 30 + 31) + (day - 1)

Day_2025_07_01 == DayNumber(7, 1)
Day_2025_07_16 == DayNumber(7, 16)
Day_2025_07_31 == DayNumber(7, 31)
Day_2025_08_30 == DayNumber(8, 30)

RulePromise == ClaimRow("promise", 0, Some(Day_2025_08_30), TRUE, FALSE)

\* silver_claims holds the promise and any one other claim
InitScenario ==
    /\ InitUpd
    /\ claims \in {cl \in [ClaimIds -> ClaimTemplates \cup {RulePromise}] : cl[1] = RulePromise}
    /\ InitLease
    /\ InitExtract
    /\ InitPure
    /\ InitNoPoll
    /\ InitRest

ScenarioNext ==
    \/ StartRun(1)
    \/ Autoplan(1)
    \/ Drain(1)
    \/ Process(1)
    \/ Finish(1)
    \/ Tick

SpecScenario == InitScenario /\ [][ScenarioNext]_vars

\* the follow_up_date values of the claim's rows in silver_followups, in
\* insertion order
FollowupDatesOf(c) ==
    LET rows == SelectSeq(followups, LAMBDA f : f.claim_id = c)
    IN  [i \in 1..Len(rows) |-> rows[i].follow_up_date]

\* C15 (as the code has it): after the pipeline has run on 2025-06-01 the
\* promise with article_date 2025-06-01 and completion_condition_date
\* 2025-08-30 has date_past = false and its materialized Follow-up schedule is
\* exactly [2025-07-16, 2025-08-30] (span 90 is not over 90: midpoint rule).
C15_ScenarioScheduleMidpoint ==
    (IsSome(snap.day) /\ today = 0) =>
        /\ ~claims[1].date_past
        /\ FollowupDatesOf(1) = <<normalize_dates(Day_2025_07_16), normalize_dates(Day_2025_08_30)>>

C15_Witness ==
    /\ snap.day = Some(0)
    /\ today = 0
    /\ claims[1] = RulePromise
    /\ Len(FollowupDatesOf(1)) = 2

\* C15 (as stated): after the pipeline has run on 2025-06-01 the promise has
\* date_past = false and its materialized Follow-up schedule is exactly
\* [2025-07-01, 2025-07-31, 2025-08-30].
C15_ScenarioScheduleCadence ==
    (IsSome(snap.day) /\ today = 0) =>
        /\ ~claims[1].date_past
        /\ FollowupDatesOf(1) = <<normalize_dates(Day_2025_07_01), normalize_dates(Day_2025_07_31),
                                  normalize_dates(Day_2025_08_30)>>

----------------------------------------------------------------------------
(* The run on a promise's completion date *)

\* the Updates of claim c inserted since the previous run ended
NewUpdatesOf(c) ==
    {i \in (snap.updates + 1)..Len(updates) : updates[i].claim_id = c}

\* the autoplanned Follow-up rows of claim c on day d
PlannedRowsOn(c, d) ==
    {k \in 1..Len(followups) : /\ followups[k].claim_id = c
                               /\ followups[k].model_output = "autoplan"
                               /\ followups[k].follow_up_date = normalize_dates(d)}

\* C17: for a promise whose schedule was autoplanned (a Follow-up exists on its
\* completion date), the pipeline run on the completion date that stores the
\* promise's endpoint Update has, when it ends, inserted exactly one new
\* Update for that claim, set the claim's date_past, and left the
\* completion-date Follow-up with processed_at set.
C17_EndpointRunProcessesFollowup ==
    [][\A c \in ClaimIds :
         (/\ pc[1] = "process" /\ pc'[1] = "idle"
          /\ claims[c].type = "promise"
          /\ claims[c].completion_condition_date = Some(today)
          /\ PlannedRowsOn(c, today) # {}
          /\ \E i \in NewUpdatesOf(c) : updates[i].update_type = "ENDPOINT")
         => /\ Cardinality(NewUpdatesOf(c)) = 1
            /\ claims[c].date_past
            /\ \A k \in PlannedRowsOn(c, today) : IsSome(followups[k].processed_at)
      ]_vars

----------------------------------------------------------------------------
(* update_promises.py: two runs at once on the day a Follow-up is due *)

\* span 91: day 1 = article_date + 30 is on the schedule, and
\* claim_needs_update returns NO_UPDATE on it, so the promise itself is not a
\* request on day 1
LongPromise == ClaimRow("promise", 1 - CadenceDays, Some(1 - CadenceDays + LongSpanDays + 1), TRUE, FALSE)

InitDrain ==
    /\ InitUpd
    /\ claims = [c \in ClaimIds |->
                    IF c = 1 THEN LongPromise ELSE ClaimRow("statement", 0, None, FALSE, FALSE)]
    /\ InitLease
    /\ InitExtract
    /\ InitPure
    /\ InitNoPoll
    /\ InitRest

DrainNext ==
    \/ \E w \in Workers : StartRun(w)
    \/ \E w \in Workers : Autoplan(w)
    \/ \E w \in Workers : Drain(w)
    \/ \E w \in Workers : Process(w)
    \/ \E w \in Workers : Finish(w)
    \/ Tick

SpecDrain == InitDrain /\ [][DrainNext]_vars

\* the Updates that answer follow-up requests of claim c
FollowupUpdatesOf(upd, c) ==
    {i \in 1..Len(upd) : upd[i].claim_id = c /\ upd[i].kind = "followup"}

\* the Follow-ups of claim c that have been taken up to now
ProcessedFollowupsOf(coll, c) ==
    {k \in 1..Len(coll) : coll[k].claim_id = c /\ IsSome(coll[k].processed_at)}

\* C18: a due Follow-up is taken by exactly one worker: with two
\* update_promises workers draining on the same pipeline date, under every
\* interleaving a claim has at most one Update per Follow-up taken, and a
\* processed_update_id, once set, is never written again.
C18_FollowupTakenOnce ==
    [][/\ \A c \in ClaimIds :
             Cardinality(FollowupUpdatesOf(updates', c))
                <= Cardinality(ProcessedFollowupsOf(followups', c))
       /\ \A k \in 1..Len(followups) :
             IsSome(followups[k].processed_update_id)
                => followups'[k].processed_update_id = followups[k].processed_update_id
      ]_vars

----------------------------------------------------------------------------
(* The hour gate on follow-ups *)

\* the follow_up_worthy goals, the follow_up_worthy statements without an
\* Update and the open promises classified as due: the claims a run asks
\* about whatever the hour
AskedAnyHour(c) ==
    \/ claims[c].type = "goal" /\ claims[c].follow_up_worthy
    \/ claims[c].type = "statement" /\ claims[c].follow_up_worthy /\ ~HasUpdate(c)
    \/ /\ claims[c].type = "promise" /\ ~claims[c].date_past
       /\ IsSome(claims[c].completion_condition_date)
       /\ claim_needs_update(claims[c], today) # "NO_UPDATE"

\* C19: in a run whose UTC-5 local hour is below 23, no Follow-up is turned
\* into a request and no Follow-up gets processed_at set, while the promise,
\* goal and statement requests are built and answered with Updates as at any
\* hour; a Follow-up is marked processed only at local hour 23.
C19_FollowupsOnlyAtLastRun ==
    [][/\ hour < LastRunHour =>
             /\ \A i \in 1..Len(reqs'[1]) : reqs'[1][i].kind # "followup"
             /\ \A i \in 1..Len(updates') : i > Len(updates) => updates'[i].kind # "followup"
             /\ (pc[1] = "idle" /\ pc'[1] = "autoplan") =>
                    \A c \in ClaimIds :
                        AskedAnyHour(c) => \E i \in 1..Len(reqs'[1]) :
                                              reqs'[1][i].claim_id = c /\ reqs'[1][i].kind = claims[c].type
             /\ (pc[1] = "process" /\ reqs[1] # <<>> /\ reqs'[1] # reqs[1]) =>
                    \/ /\ Len(updates') = Len(updates) + 1
                       /\ updates'[Len(updates')].claim_id = Head(reqs[1]).claim_id
                       /\ updates'[Len(updates')].kind = Head(reqs[1]).kind
                    \/ updates' = updates
       /\ \A k \in 1..Len(followups) :
             (~IsSome(followups[k].processed_at) /\ IsSome(followups'[k].processed_at))
                => hour = LastRunHour
      ]_vars

\* a run before 23:00 has ended, it stored an Update, and a Follow-up due on
\* the pipeline date is still unprocessed
C19_Witness ==
    /\ hour < LastRunHour
    /\ snap.day = Some(today)
    /\ pc[1] = "idle"
    /\ \E i \in 1..Len(updates) : updates[i].created_at = normalize_datetime(utcnow)
    /\ \E k \in 1..Len(followups) : /\ followups[k].follow_up_date = normalize_dates(today)
                                    /\ ~IsSome(followups[k].processed_at)

----------------------------------------------------------------------------
(* util/openai_batch.py: poll_batch and poll_batch_with_fallback *)

PollSeconds == 600
MaxRequests == 10

\* timeout=60 * 30 as run_batch_process passes it
timeout == 60 * 30

HardStopAfter == 60 * 60 * 4

\* what a sleep between two polls can take
Sleeps == {PollSeconds, 3 * PollSeconds}

\* the statuses a retrieve can return
BatchStatuses == {"in_progress", "finalizing", "completed", "expired", "cancelled", "failed"}

\* the ratio of _extract_progress: None unless a positive total is known
_extract_progress(c, t) ==
    IF t > 0 THEN Some(Fraction(c, t)) ELSE None

RatioGt(a, b) == a.num * b.den > b.num * a.den

\* mutant: progress is never recorded
ProgressSeen_never(ratio, prev) ==
    FALSE

\* line 103: ratio is not None and ratio > last_ratio
ProgressSeen(ratio, prev) ==
    IsSome(ratio) /\ RatioGt(Val(ratio), prev)

\* line 107
TimedOut(now, hard, progress_ts) ==
    now > hard \/ (now - progress_ts) > timeout

InitPoll ==
    /\ InitUpd
    /\ claims = NoWork
    /\ InitLease
    /\ InitExtract
    /\ InitPure
    /\ InitPollVars
    /\ InitRest
    /\ ppc = "retrieve"
    /\ total \in {0, MaxRequests}

\* one iteration of the while loop up to the sleep, with the except clause of
\* poll_batch_with_fallback; the batch may have completed one more request
\* since the previous retrieve
Retrieve ==
    /\ ppc = "retrieve"
    /\ \E st \in BatchStatuses, c \in {completed, completed + 1} :
          /\ c <= MaxRequests
          /\ completed' = c
          /\ status' = st
          /\ LET ratio == _extract_progress(c, total)
                 progress == ProgressSeen(ratio, last_ratio)
                 ts == IF progress THEN bclock ELSE last_progress_ts
             IN  /\ seen_ratio' = ratio
                 /\ increase_ts' = IF /\ IsSome(ratio) /\ IsSome(seen_ratio)
                                      /\ RatioGt(Val(ratio), Val(seen_ratio))
                                   THEN bclock ELSE increase_ts
                 /\ IF st \in {"completed", "expired", "cancelled"}
                    THEN /\ presult' = "batch"
                         /\ ppc' = "done"
                         /\ UNCHANGED <<last_ratio, last_progress_ts, on_timeout_calls>>
                    ELSE IF st = "failed"
                    THEN /\ presult' = "RuntimeError"
                         /\ ppc' = "done"
                         /\ UNCHANGED <<last_ratio, last_progress_ts, on_timeout_calls>>
                    ELSE /\ last_ratio' = IF progress THEN Val(ratio) ELSE last_ratio
                         /\ last_progress_ts' = ts
                         /\ IF TimedOut(bclock, hard_stop_ts, ts)
                            THEN /\ on_timeout_calls' = on_timeout_calls + 1
                                 /\ presult' = "None"
                                 /\ ppc' = "done"
                            ELSE /\ ppc' = "sleep"
                                 /\ UNCHANGED <<on_timeout_calls, presult>>
    /\ UNCHANGED <<bclock, total, hard_stop_ts, restVars, pureVars, updVars, leaseVars, extractVars>>

\* line 113: time.sleep(poll_interval)
Sleep ==
    /\ ppc = "sleep"
    /\ \E d \in Sleeps : bclock' = bclock + d
    /\ ppc' = "retrieve"
    /\ UNCHANGED <<completed, total, status, last_progress_ts, last_ratio, hard_stop_ts,
                   on_timeout_calls, presult, seen_ratio, increase_ts,
                   restVars, pureVars, updVars, leaseVars, extractVars>>

PollNext ==
    \/ Retrieve
    \/ Sleep

SpecPoll == InitPoll /\ [][PollNext]_vars

\* C20: on_timeout is invoked exactly when a poll finds the batch in a
\* non-terminal status and either the time since the last observed increase
\* of the completed/total ratio exceeds the idle timeout or the clock is past
\* the hard cap, 4 hours after the start (time 0); an increase observed by the
\* poll itself counts, so every observed increase resets the idle deadline;
\* on_timeout is invoked at most once, and poll_batch_with_fallback then
\* returns None.
C20_OnTimeoutExactlyOnIdleOrHardCap ==
    [][/\ ppc = "retrieve" =>
             /\ on_timeout_calls' = on_timeout_calls + 1
                  <=> /\ status' \notin {"completed", "expired", "cancelled", "failed"}
                      /\ \/ bclock - increase_ts' > timeout
                         \/ bclock > HardStopAfter
             /\ on_timeout_calls' = on_timeout_calls + 1 => (presult' = "None" /\ ppc' = "done")
       /\ ppc # "retrieve" => on_timeout_calls' = on_timeout_calls
       /\ on_timeout_calls' <= 1
      ]_vars

\* the hard cap ends a poll whose batch kept making progress
C20_Witness ==
    /\ on_timeout_calls = 1
    /\ presult = "None"
    /\ bclock > HardStopAfter
    /\ bclock - increase_ts <= timeout
    /\ increase_ts > 0

----------------------------------------------------------------------------
(* Every stage modelled above is at rest *)

InitCore ==
    /\ InitUpd
    /\ claims = NoWork
    /\ InitLease
    /\ InitExtract
    /\ InitPure
    /\ InitNoPoll

----------------------------------------------------------------------------
(* scripts/enrich_articles.py run(): batch (Mode A), poll, fallback (Mode B) *)

MaxDocs == 3

EnrichIds == 1..MaxDocs

\* mutant: the fallback leaves out the first document of the batch
FallbackDocs_rest(ds) ==
    Tail(SetToSeq(ds))

\* _fallback_enrich(docs, template): the documents the loop visits, in order
FallbackDocs(ds) ==
    SetToSeq(ds)

\* the batch has been created from the documents the run locked (lines
\* 235-244: acquire_lock on enrich_lock for every document of the batch)
InitEnrich ==
    /\ InitCore
    /\ InitNoDedupe
    /\ InitNoRoundup
    /\ InitNoSearch
    /\ edocs \in (SUBSET EnrichIds) \ {{}}
    /\ epc = "poll"
    /\ job = "in_progress"
    /\ cancel_calls = [n |-> 0, raised |-> FALSE]
    /\ enrich_calls = [d \in EnrichIds |-> 0]
    /\ etodo = <<>>
    /\ applied = {}
    /\ enriched = {}
    /\ enrich_lock = edocs

\* poll_batch returns the finished batch: the output lines are read
PollReturns ==
    /\ epc = "poll"
    /\ \E st \in {"completed", "expired", "cancelled"} : job' = st
    /\ etodo' = SetToSeq(edocs)
    /\ epc' = "apply"
    /\ UNCHANGED <<edocs, cancel_calls, enrich_calls, applied, enriched, enrich_lock, notEnrich>>

\* poll_batch finds the timeout condition: batches.cancel inside try/except
\* pass, then TimeoutError, caught by poll_batch_with_fallback, which calls
\* on_timeout = _fallback
PollExpires ==
    /\ epc = "poll"
    /\ \E raised \in BOOLEAN :
          /\ cancel_calls' = [n |-> cancel_calls.n + 1, raised |-> raised]
          /\ job' = IF raised THEN job ELSE "cancelling"
    /\ etodo' = FallbackDocs(edocs)
    /\ epc' = "fallback"
    /\ UNCHANGED <<edocs, enrich_calls, applied, enriched, enrich_lock, notEnrich>>

\* one iteration of the loop of _fallback_enrich: _enrich returns a parsed
\* enrichment, which is stored, or None
FallbackEnrichOne ==
    /\ epc = "fallback"
    /\ etodo # <<>>
    /\ enrich_calls' = [enrich_calls EXCEPT ![Head(etodo)] = @ + 1]
    /\ \E parsed \in BOOLEAN :
          enriched' = IF parsed THEN enriched \cup {Head(etodo)} ELSE enriched
    /\ etodo' = Tail(etodo)
    /\ UNCHANGED <<edocs, epc, job, cancel_calls, applied, enrich_lock, notEnrich>>

\* on_timeout has returned: poll_batch_with_fallback returns None, run returns
FallbackReturns ==
    /\ epc = "fallback"
    /\ etodo = <<>>
    /\ epc' = "done"
    /\ UNCHANGED <<edocs, job, cancel_calls, enrich_calls, etodo, applied, enriched, enrich_lock, notEnrich>>

\* one record of the batch output: applied when it carries a valid body; the
\* update_one of lines 364-374 sets the fields and unsets enrich_lock
ApplyOutputOne ==
    /\ epc = "apply"
    /\ etodo # <<>>
    /\ applied' = applied \cup {Head(etodo)}
    /\ \E valid \in BOOLEAN :
          /\ enriched' = IF valid THEN enriched \cup {Head(etodo)} ELSE enriched
          /\ enrich_lock' = IF valid THEN enrich_lock \ {Head(etodo)} ELSE enrich_lock
    /\ etodo' = Tail(etodo)
    /\ UNCHANGED <<edocs, epc, job, cancel_calls, enrich_calls, notEnrich>>

ApplyReturns ==
    /\ epc = "apply"
    /\ etodo = <<>>
    /\ epc' = "done"
    /\ UNCHANGED <<edocs, job, cancel_calls, enrich_calls, etodo, applied, enriched, enrich_lock, notEnrich>>

EnrichNext ==
    \/ PollReturns
    \/ PollExpires
    \/ FallbackEnrichOne
    \/ FallbackReturns
    \/ ApplyOutputOne
    \/ ApplyReturns

SpecEnrich == InitEnrich /\ [][EnrichNext]_vars

----------------------------------------------------------------------------
(* util/openai_batch.py sanitize_schema_for_strict.  A JSON value is a
   dict (a function from its keys), List(xs) or Scalar(text); the value of
   "properties", "$defs" and "definitions" is an ItemDict, which keeps the
   insertion order of its keys *)

SchemaDepth == 2

Scalar(text) == [scalar |-> text]

List(xs) == [list |-> xs]

ItemDict(items) == [dict |-> items]

IsScalar(v) == "scalar" \in DOMAIN v

IsList(v) == "list" \in DOMAIN v

IsItemDict(v) == "dict" \in DOMAIN v

\* a dict that is a schema node
IsNode(v) == ~IsScalar(v) /\ ~IsList(v) /\ ~IsItemDict(v)

\* node[k] = v
Put(node, k, v) == [x \in DOMAIN node \cup {k} |-> IF x = k THEN v ELSE node[x]]

StringSchema == "type" :> Scalar("string")

\* object nodes as a schema generator may leave them: open, without
\* properties, with a properties value that is no dict, with a stale required
SchemaLeaves ==
    { StringSchema,
      "type" :> Scalar("object"),
      ("type" :> Scalar("object")) @@ ("properties" :> Scalar("none")),
      ("type" :> Scalar("object")) @@ ("properties" :> ItemDict(<<>>))
          @@ ("required" :> List(<<Scalar("x")>>)) @@ ("additionalProperties" :> Scalar("true")),
      ("type" :> Scalar("object")) @@ ("properties" :> ItemDict(<<<<"a", StringSchema>>>>)) }

\* the schemas that hold a schema c under one of the keywords
Parents(c) ==
    { ("type" :> Scalar("object")) @@ ("properties" :> ItemDict(<<<<"a", c>>, <<"b", StringSchema>>>>)),
      ("type" :> Scalar("array")) @@ ("items" :> c),
      ("type" :> Scalar("array")) @@ ("items" :> List(<<StringSchema, c>>)),
      "anyOf" :> List(<<c, StringSchema>>),
      "oneOf" :> List(<<c>>),
      ("allOf" :> List(<<c>>)) @@ ("type" :> Scalar("object")),
      ("$defs" :> ItemDict(<<<<"D", c>>>>)) @@ ("type" :> Scalar("object"))
          @@ ("properties" :> ItemDict(<<<<"d", StringSchema>>>>)),
      "definitions" :> ItemDict(<<<<"D", c>>>>) }

RECURSIVE Schemas(_)
Schemas(depth) ==
    IF depth = 0 THEN SchemaLeaves
    ELSE Schemas(depth - 1) \cup UNION {Parents(c) : c \in Schemas(depth - 1)}

\* mutant: object nodes keep the required list they came with
CloseObject_keep(node) ==
    IF "type" \in DOMAIN node /\ node["type"] = Scalar("object")
    THEN Put(node, "additionalProperties", Scalar("false"))
    ELSE node

\* lines 25-32: the node itself, after its children
CloseObject(node) ==
    IF "type" \in DOMAIN node /\ node["type"] = Scalar("object")
    THEN LET n1 == Put(node, "additionalProperties", Scalar("false"))
         IN  IF "properties" \in DOMAIN n1 /\ IsItemDict(n1["properties"])
             THEN Put(n1, "required",
                      List([i \in 1..Len(n1["properties"].dict) |->
                                Scalar(n1["properties"].dict[i][1])]))
             ELSE Put(Put(n1, "properties", ItemDict(<<>>)), "required", List(<<>>))
    ELSE node

RECURSIVE walk(_)
\* lines 15-36; WalkKeys(node, keys, how) handles one of the three for loops
RECURSIVE WalkKeys(_, _, _)
WalkKeys(node, keys, how) ==
    IF keys = <<>> THEN node
    ELSE LET k == Head(keys)
             v == node[k]
             next ==
                 IF k \notin DOMAIN node THEN node
                 ELSE IF how = "dict"
                 THEN IF IsItemDict(v)
                      THEN Put(node, k, ItemDict([i \in 1..Len(v.dict) |->
                                                    <<v.dict[i][1], walk(v.dict[i][2])>>]))
                      ELSE node
                 ELSE IF how = "any" THEN Put(node, k, walk(v))
                 ELSE IF IsList(v)
                      THEN Put(node, k, List([i \in 1..Len(v.list) |-> walk(v.list[i])]))
                      ELSE node
         IN  WalkKeys(next, Tail(keys), how)

walk(node) ==
    IF IsNode(node)
    THEN CloseObject(
            WalkKeys(
                WalkKeys(
                    WalkKeys(node, <<"properties", "$defs", "definitions">>, "dict"),
                    <<"items", "additionalItems", "contains">>, "any"),
                <<"anyOf", "oneOf", "allOf">>, "list"))
    ELSE IF IsList(node)
    THEN List([i \in 1..Len(node.list) |-> walk(node.list[i])])
    ELSE node

\* mutant: walk runs on the caller's object
deepcopy_alias(schema) ==
    [obj |-> schema, alias |-> TRUE]

\* copy.deepcopy: a new object, equal to the schema and sharing nothing with it
deepcopy(schema) ==
    [obj |-> schema, alias |-> FALSE]

\* the value returned, and the caller's schema object after the call: walk
\* changes the object it is given in place
sanitize_schema_for_strict(schema) ==
    LET copy == deepcopy(schema)
        result == walk(copy.obj)
    IN  [result |-> result, input |-> IF copy.alias THEN result ELSE schema]

InitSchema ==
    /\ InitUpd
    /\ claims = NoWork
    /\ InitLease
    /\ InitExtract
    /\ InitNoPoll
    /\ InitRest
    /\ \E sch \in Schemas(SchemaDepth) : fin = [orig |-> sch, schema |-> sch]
    /\ fout = NoCall

\* one call on the schema
CallSanitize ==
    /\ fout.fn = "none"
    /\ LET r == sanitize_schema_for_strict(fin.schema)
       IN  /\ fout' = [fn |-> "sanitize_schema_for_strict", val |-> r.result]
           /\ fin' = [fin EXCEPT !.schema = r.input]
    /\ UNCHANGED <<updVars, leaseVars, extractVars, pollVars, restVars>>

\* a further call on what the previous call returned
CallSanitizeAgain ==
    /\ fout.fn \in {"sanitize_schema_for_strict", "again"}
    /\ fout' = [fn |-> "again", prev |-> fout.val,
                val |-> sanitize_schema_for_strict(fout.val).result]
    /\ UNCHANGED <<fin, updVars, leaseVars, extractVars, pollVars, restVars>>

SchemaNext ==
    \/ CallSanitize
    \/ CallSanitizeAgain

SpecSchema == InitSchema /\ [][SchemaNext]_vars

\* the schemas directly under a node through properties, items, anyOf, oneOf,
\* allOf, $defs and definitions
ChildrenOf(node) ==
    UNION { IF k \notin DOMAIN node THEN {}
            ELSE IF IsItemDict(node[k]) THEN {node[k].dict[i][2] : i \in 1..Len(node[k].dict)}
            ELSE IF IsList(node[k]) THEN {node[k].list[i] : i \in 1..Len(node[k].list)}
            ELSE IF IsNode(node[k]) THEN {node[k]}
            ELSE {} :
            k \in {"properties", "items", "anyOf", "oneOf", "allOf", "$defs", "definitions"} }

RECURSIVE Reachable(_)
Reachable(node) ==
    {node} \cup UNION {Reachable(c) : c \in ChildrenOf(node)}

IsObjectNode(node) ==
    IsNode(node) /\ "type" \in DOMAIN node /\ node["type"] = Scalar("object")

Closed(node) ==
    /\ "additionalProperties" \in DOMAIN node
    /\ node["additionalProperties"] = Scalar("false")
    /\ "properties" \in DOMAIN node
    /\ IsItemDict(node["properties"])
    /\ "required" \in DOMAIN node
    /\ IsList(node["required"])
    /\ Len(node["required"].list) = Len(node["properties"].dict)
    /\ \A i \in 1..Len(node["properties"].dict) :
          node["required"].list[i] = Scalar(node["properties"].dict[i][1])

\* C22: in the schema sanitize_schema_for_strict returns, every object node
\* (a node whose type is "object") reachable through properties, items, anyOf,
\* oneOf, allOf, $defs and definitions has additionalProperties = false and a
\* required list that is exactly the keys of its properties.
C22_EveryObjectClosed ==
    fout.fn = "sanitize_schema_for_strict" =>
        \A n \in Reachable(fout.val) : IsObjectNode(n) => Closed(n)

\* a schema with an open object two levels down has been sanitized
C22_Witness ==
    /\ fout.fn = "sanitize_schema_for_strict"
    /\ \E n \in Reachable(fin.orig) : IsObjectNode(n) /\ ~Closed(n) /\ n # fin.orig
    /\ \E n \in Reachable(fout.val) :
          /\ IsObjectNode(n)
          /\ n # fout.val
          /\ Len(n["required"].list) > 0

\* C23: sanitize_schema_for_strict is idempotent and pure: applied to its own
\* output it returns an equal schema, and the schema object it was given is
\* the same after the call as before.
C23_SanitizeIdempotentAndPure ==
    /\ fout.fn = "again" => fout.val = fout.prev
    /\ fout.fn # "none" => fin.schema = fin.orig

\* the first call changed the schema, the second call changed nothing
C23_Witness ==
    /\ fout.fn = "again"
    /\ fout.prev # fin.orig
    /\ fout.val = fout.prev
    /\ fin.schema = fin.orig

----------------------------------------------------------------------------
(* Datetimes written by update_promises.py *)

\* the stored form of a datetime written now: the naive utcnow() value with
\* the offset -05:00 attached by normalize_dates
StoredNow == normalize_datetime(utcnow)

\* a stored date: local midnight of some day, offset -05:00
IsStoredDate(v) == (v - TzOffsetHours) % 24 = 0

\* C24: every datetime the write paths of the pipeline persist has passed
\* through normalize_dates and carries the offset -05:00; for the steps of
\* update_promises: the created_at of a new Update row, the created_at and
\* follow_up_date of a new Follow-up row, and the processed_at written when a
\* Follow-up is marked processed.
C24_PersistedDatetimesNormalized ==
    [][/\ \A i \in 1..Len(updates') :
             i > Len(updates) => updates'[i].created_at = StoredNow
       /\ \A k \in 1..Len(followups') :
             k > Len(followups) => /\ followups'[k].created_at = StoredNow
                                   /\ IsStoredDate(followups'[k].follow_up_date)
       /\ \A k \in 1..Len(followups) :
             (~IsSome(followups[k].processed_at) /\ IsSome(followups'[k].processed_at))
                => followups'[k].processed_at = Some(StoredNow)
      ]_vars

----------------------------------------------------------------------------
(* scripts/dedupe_followups.py *)

MaxRows == 3

\* (claim_id, follow_up_date) pairs of the rows
DedupeKeys == {<<1, 0>>, <<1, 1>>, <<2, 0>>}

DedupeRow(id, key, created, processed) ==
    [_id |-> id, claim_id |-> key[1], follow_up_date |-> key[2],
     created_at |-> created, processed_at |-> processed]

\* a store of n rows with ids 1..n
DedupeStore(n, key, created, processed) ==
    {DedupeRow(i, key[i], created[i], processed[i]) : i \in 1..n}

KeyOf(d) == <<d.claim_id, d.follow_up_date>>

\* the sort key (created_at, str(_id)), compared
SortsBefore(d, e) ==
    d.created_at < e.created_at \/ (d.created_at = e.created_at /\ d._id <= e._id)

First(ds) == CHOOSE d \in ds : \A e \in ds : SortsBefore(d, e)

\* mutant: the processed rows are not preferred
_flatten_docs_earliest(ds) ==
    LET keep == First(ds)
    IN  [keep |-> keep, delete_candidates |-> {d \in ds : d._id # keep._id}]

_flatten_docs(ds) ==
    LET processed == {d \in ds : IsSome(d.processed_at)}
        unprocessed == {d \in ds : ~IsSome(d.processed_at)}
        keep == IF processed # {} THEN First(processed) ELSE First(unprocessed)
    IN  [keep |-> keep, delete_candidates |-> {d \in ds : d._id # keep._id}]

RECURSIVE SetAsSeq(_)
SetAsSeq(S) ==
    IF S = {} THEN <<>>
    ELSE LET x == CHOOSE y \in S : TRUE
         IN  <<x>> \o SetAsSeq(S \ {x})

\* the $group / $match count > 1 aggregation: the groups of two or more rows
find_duplicate_groups(coll) ==
    SetAsSeq({g \in {{d \in coll : KeyOf(d) = k} : k \in DedupeKeys} : Cardinality(g) > 1})

InitDedupe ==
    /\ InitCore
    /\ InitNoEnrich
    /\ InitNoRoundup
    /\ InitNoSearch
    /\ \E n \in 1..MaxRows :
          \E key \in [1..n -> DedupeKeys], created \in [1..n -> {0, 1}],
             processed \in [1..n -> {None, Some(1)}] :
              fstore = DedupeStore(n, key, created, processed)
    /\ dorig = fstore
    /\ dry_run \in BOOLEAN
    /\ dpc = "start"
    /\ dgroups = <<>>

\* lines 61-63
FindGroups ==
    /\ dpc = "start"
    /\ dgroups' = find_duplicate_groups(fstore)
    /\ dpc' = "loop"
    /\ UNCHANGED <<fstore, dry_run, dorig, notDedupe>>

\* lines 66-80: one group
DedupeGroup ==
    /\ dpc = "loop"
    /\ dgroups # <<>>
    /\ LET r == _flatten_docs(Head(dgroups))
       IN  fstore' = IF dry_run THEN fstore
                     ELSE {d \in fstore : \A x \in r.delete_candidates : x._id # d._id}
    /\ dgroups' = Tail(dgroups)
    /\ UNCHANGED <<dpc, dry_run, dorig, notDedupe>>

DedupeReturns ==
    /\ dpc = "loop"
    /\ dgroups = <<>>
    /\ dpc' = "done"
    /\ UNCHANGED <<fstore, dgroups, dry_run, dorig, notDedupe>>

DedupeNext ==
    \/ FindGroups
    \/ DedupeGroup
    \/ DedupeReturns

SpecDedupe == InitDedupe /\ [][DedupeNext]_vars

GroupOf(coll, k) == {d \in coll : KeyOf(d) = k}

----------------------------------------------------------------------------
(* update_promises.py lines 629-677, 801-841: a call that raises *)

\* the Update row of a request whose run_with_search call raised: line 677
\* sets verdict 'failed', the one verdict of Outcomes no parsed object carries
IsErrorRow(u) == u.verdict = "failed"

\* C27: a verification request whose LLM call raises is skipped for the run:
\* no Update row is stored for it, so no row of the Update collection comes
\* from a raising call, no claim's date_past was set on account of one and no
\* Follow-up is marked processed by one.
C27_RaisingCallStoresNothing ==
    /\ \A i \in 1..Len(updates) : ~IsErrorRow(updates[i])
    /\ \A j \in 1..Len(followups) :
          IsSome(followups[j].processed_update_id) =>
              ~IsErrorRow(updates[Val(followups[j].processed_update_id)])

----------------------------------------------------------------------------
(* models.py ClaimProcessingStep, claim_process.py lines 479-521 and the    *)
(* chump check of update_promises.py main(): the rows of silver_claims     *)

MaxIngest == 3

ClaimTypes == {"promise", "goal", "statement"}

\* the steps a structured output can carry: any type with or without a
\* deadline, before or after the pipeline day 0
ModelSteps ==
    [type : ClaimTypes, completion_condition_date : {None, Some(-1), Some(1)},
     follow_up_worthy : BOOLEAN]

\* ClaimProcessingStep.__init__: deadlines are promise-only
ClaimProcessingStep(step) ==
    [step EXCEPT !.completion_condition_date = IF step.type # "promise" THEN None ELSE @]

\* lines 488-502: date_past, article metadata, MongoClaim
MongoClaim(article_id, step, t) ==
    LET s == ClaimProcessingStep(step)
        ccd == s.completion_condition_date
    IN  [article_id |-> article_id]
        @@ ClaimRow(s.type, t, ccd, s.follow_up_worthy, IsSome(ccd) /\ Val(ccd) < t)

\* line 518: one step of an article's result is inserted as a claim
InsertClaim ==
    /\ Len(xclaims) < MaxIngest
    /\ \E a \in Articles, step \in ModelSteps :
          xclaims' = Append(xclaims, MongoClaim(a, step, today))
    /\ UNCHANGED <<pureVars, pollVars, restVars, updVars, leaseVars,
                   articles, xpc, cursor, docs, xruns>>

\* update_promises.py lines 399-402, run on the stored rows
ChumpCheckRun ==
    /\ xclaims' = ChumpCheck(xclaims)
    /\ UNCHANGED <<pureVars, pollVars, restVars, updVars, leaseVars,
                   articles, xpc, cursor, docs, xruns>>

IngestNext ==
    \/ InsertClaim
    \/ ChumpCheckRun

SpecIngest == InitServices /\ [][IngestNext]_vars

\* C28: in every store state each Claim of type promise has a deadline (a
\* promise extracted without one is stored as a goal at ingest) and each
\* claim of another type has completion_condition_date null.
C28_PromiseHasDeadline ==
    \A i \in 1..Len(xclaims) :
        /\ xclaims[i].type = "promise" => IsSome(xclaims[i].completion_condition_date)
        /\ xclaims[i].type # "promise" => ~IsSome(xclaims[i].completion_condition_date)

----------------------------------------------------------------------------
(* The daily pipeline without end: one update_promises run in every run    *)
(* slot (hour 11 and hour 23 of each day), every verification call and     *)
(* every insert succeeding, no follow-up proposed by the model             *)

\* a day after every deadline and every scheduled follow-up of the claims
\* below; the days from Horizon on are one day, because no query of a run
\* distinguishes them: a promise not yet date_past gets ENDPOINT on any of
\* them and no follow-up is dated there
Horizon == 9

\* promises as claim extraction stores them on day 0
DailyTemplates ==
    {cl \in ClaimTemplates : cl.type = "promise" /\ IsSome(cl.completion_condition_date)}

InitDaily ==
    /\ InitUpd
    /\ claims \in [ClaimIds -> DailyTemplates]
    /\ InitLease
    /\ InitExtract
    /\ InitPure
    /\ InitNoPoll
    /\ InitRest

\* main() begins in a slot that has had no run yet (runs counts the runs of
\* the slot): chump check, claim groups, requests
DailyStart ==
    /\ pc[1] = "idle"
    /\ runs = 0
    /\ runs' = 1
    /\ LET cl == ChumpCheck(claims)
           g == get_claim_groups(cl)
       IN  /\ claims' = cl
           /\ promises' = [promises EXCEPT ![1] = g.promises]
           /\ reqs' = [reqs EXCEPT ![1] =
                          _build_requests(cl, g.promises, today)
                          \o GoalRequests(g.goals_fu)
                          \o StatementRequests(FilterStatements(g.statements_fu, updates))]
    /\ pc' = [pc EXCEPT ![1] = "autoplan"]
    /\ UNCHANGED <<pureVars, pollVars, restVars, today, wallday, hour, followups, updates, ap, snap, leaseVars, extractVars>>

\* lines 518-531: one call of ensure_full_schedule_for_claim
DailyAutoplan ==
    /\ pc[1] = "autoplan"
    /\ promises[1] # <<>>
    /\ followups' = ensure_full_schedule_for_claim(followups, Head(promises[1]),
                                                   claims[Head(promises[1])], today, utcnow)
    /\ promises' = [promises EXCEPT ![1] = Tail(@)]
    /\ UNCHANGED <<pureVars, pollVars, restVars, today, wallday, hour, claims, updates, pc, reqs, ap, runs, snap, leaseVars, extractVars>>

\* lines 595-841: one request; the call returns a parsed object without a
\* follow_up_date and the Update insert succeeds
DailyProcess ==
    /\ pc[1] = "process"
    /\ reqs[1] # <<>>
    /\ LET r == Head(reqs[1])
       IN  \E v \in Verdicts(r.kind) :
             /\ updates' = Append(updates, UpdateRow(r, Outcome("parsed", v, None, TRUE), utcnow))
             /\ claims' = IF MarksDatePast(r, v)
                          THEN [claims EXCEPT ![r.claim_id].date_past = TRUE]
                          ELSE claims
             /\ followups' = MarkProcessed(followups, r, Len(updates) + 1, utcnow)
    /\ reqs' = [reqs EXCEPT ![1] = Tail(@)]
    /\ UNCHANGED <<pureVars, pollVars, restVars, today, wallday, hour, pc, promises, ap, runs, snap, leaseVars, extractVars>>

\* the slot has had its run: the clock moves to the next slot
DailyTick ==
    /\ pc[1] = "idle"
    /\ runs = 1
    /\ runs' = 0
    /\ IF hour < LastRunHour
       THEN hour' = LastRunHour /\ wallday' = wallday
       ELSE hour' = EarlyRunHour
            /\ wallday' = IF wallday < Horizon THEN wallday + 1 ELSE Horizon
    /\ today' = wallday'
    /\ UNCHANGED <<pureVars, pollVars, restVars, claims, followups, updates, pc, promises, reqs, ap, snap, leaseVars, extractVars>>

DailyNext ==
    \/ DailyStart
    \/ DailyAutoplan
    \/ Drain(1)
    \/ DailyProcess
    \/ Finish(1)
    \/ DailyTick

\* the scheduler starts the run of every slot and a started run goes on
SpecDaily == InitDaily /\ [][DailyNext]_vars /\ WF_vars(DailyNext)

\* C26: no claim is silently lost: while the daily runs continue (one at
\* hour 23 included) and verification calls and inserts succeed, every
\* promise Claim stored by claim extraction eventually has an Update row.
C26_EveryPromiseGetsAnUpdate ==
    \A c \in ClaimIds : (claims[c].type = "promise") ~> HasUpdate(c)

----------------------------------------------------------------------------
(* scripts/generate_roundups.py; dates are day numbers, day 0 = 2025-12-15, *)
(* a Monday                                                                 *)

CUTOFF_DATE == 0

MaxRoundupRuns == 2

\* the first of each month from 2025-11 to 2027-01 and of each year from 2024
MonthStarts ==
    {-44, -14, 17, 48, 76, 107, 137, 168, 198, 229, 260, 290, 321, 351, 382}

YearStarts == {-714, -348, 17, 382, 747}

\* pipeline dates of a run: 2025-12-15, -16, -23, 2026-02-01, 2027-01-01
RoundupDays == {0, 1, 8, 48, 382}

Latest(S, t) == CHOOSE m \in S : m <= t /\ \A n \in S : n <= t => n <= m

Earliest(S, t) == CHOOSE m \in S : m > t /\ \A n \in S : n > t => m <= n

Period(rtype, start, end) == [roundup_type |-> rtype, start |-> start, end |-> end]

_prev_day(t) == Period("daily", t - 1, t - 1)

\* Monday..Sunday; weekday() of day t is t % 7
_prev_week(t) ==
    LET last_sunday == t - ((t % 7) + 1)
    IN  Period("weekly", last_sunday - 6, last_sunday)

_prev_month(t) ==
    LET last_day_prev == Latest(MonthStarts, t) - 1
    IN  Period("monthly", Latest(MonthStarts, last_day_prev), last_day_prev)

_prev_year(t) ==
    LET start == Latest(YearStarts, Latest(YearStarts, t) - 1)
    IN  Period("yearly", start, Earliest(YearStarts, start) - 1)

\* the document of a period after mongo.normalize_dates
RoundupRow(p) ==
    [roundup_type |-> p.roundup_type, period_start |-> normalize_dates(p.start),
     period_end |-> normalize_dates(p.end)]

\* count_documents(q, limit=1) > 0 with the normalized query
_exists_roundup(coll, p) ==
    \E i \in 1..Len(coll) : coll[i] = RoundupRow(p)

\* lines 299-315
RoundupStart(w) ==
    /\ rpc[w] = "idle"
    /\ rruns < MaxRoundupRuns
    /\ rruns' = rruns + 1
    /\ \E t \in RoundupDays :
          /\ rtoday' = [rtoday EXCEPT ![w] = t]
          /\ periods' = [periods EXCEPT ![w] =
                            <<_prev_day(t), _prev_week(t), _prev_month(t), _prev_year(t)>>]
    /\ rpc' = [rpc EXCEPT ![w] = "loop"]
    /\ UNCHANGED <<roundups, notRound>>

\* lines 317-326: the cutoff, then the existence check
RoundupCheck(w) ==
    /\ rpc[w] = "loop"
    /\ periods[w] # <<>>
    /\ LET p == Head(periods[w])
       IN  IF p.start < CUTOFF_DATE \/ _exists_roundup(roundups, p)
           THEN periods' = [periods EXCEPT ![w] = Tail(@)] /\ rpc' = rpc
           ELSE periods' = periods /\ rpc' = [rpc EXCEPT ![w] = "generate"]
    /\ UNCHANGED <<roundups, rtoday, rruns, notRound>>

\* lines 327-343: _generate_roundup returns nothing, or its payload is
\* inserted
RoundupInsert(w) ==
    /\ rpc[w] = "generate"
    /\ \/ roundups' = roundups
       \/ roundups' = Append(roundups, RoundupRow(Head(periods[w])))
    /\ periods' = [periods EXCEPT ![w] = Tail(@)]
    /\ rpc' = [rpc EXCEPT ![w] = "loop"]
    /\ UNCHANGED <<rtoday, rruns, notRound>>

RoundupReturn(w) ==
    /\ rpc[w] = "loop"
    /\ periods[w] = <<>>
    /\ rpc' = [rpc EXCEPT ![w] = "idle"]
    /\ UNCHANGED <<roundups, rtoday, periods, rruns, notRound>>

RoundupNext ==
    \E w \in Workers :
        \/ RoundupStart(w)
        \/ RoundupCheck(w)
        \/ RoundupInsert(w)
        \/ RoundupReturn(w)

InitRoundup ==
    /\ InitCore
    /\ InitNoEnrich
    /\ InitNoDedupe
    /\ InitNoRoundup
    /\ InitNoSearch

SpecRoundup == InitRoundup /\ [][RoundupNext]_vars

\* C29: after any sequence of generate_roundups runs, overlapping runs of
\* several workers included, silver_roundups holds at most one row per
\* (roundup_type, period_start, period_end) and no row of a period that
\* starts before the cutoff date.
C29_OneRoundupPerPeriod ==
    /\ \A i, j \in 1..Len(roundups) : roundups[i] = roundups[j] => i = j
    /\ \A i \in 1..Len(roundups) : roundups[i].period_start >= normalize_dates(CUTOFF_DATE)

----------------------------------------------------------------------------
(* util/llm_web.py run_with_search: every API call returns or raises *)

max_turns == 8

max_attempts == 3

Texts == {"", "text"}

\* mutant: the turn loop runs its full range whatever the turn contained
TurnLoopEnds_range(n, tool_call) ==
    n = max_turns

\* lines 644, 687-688: the range is used up, or the turn had no function call
TurnLoopEnds(n, tool_call) ==
    ~tool_call \/ n = max_turns

\* an item of the conversation: its type, its call_id, and the model turn
\* whose response or tool call added it
OutputItem(type, call_id, n) ==
    [type |-> type, call_id |-> call_id, turn |-> n]

\* a request to the client: its kind and how much of the conversation its
\* input carries (the list is only ever appended to within an attempt)
SentRequest(kind) ==
    [kind |-> kind, input |-> Len(messages)]

InitSearch ==
    /\ InitCore
    /\ InitNoEnrich
    /\ InitNoDedupe
    /\ InitNoRoundup
    /\ spc = "turns"
    /\ text_format \in BOOLEAN
    /\ attempt = 1
    /\ FirstTurn
    /\ InitNoTools

\* lines 645-688: one responses.create of the turn loop with its tool calls;
\* a call that raises leaves run_with_search with the exception
ModelTurn ==
    /\ spc = "turns"
    /\ \/ /\ spc' = "raised"
          /\ UNCHANGED <<turn, had_tool_call, final_text>>
       \/ \E tool_call \in BOOLEAN, text \in Texts :
             /\ turn' = turn + 1
             /\ had_tool_call' = tool_call
             /\ final_text' = text
             /\ spc' = IF TurnLoopEnds(turn + 1, tool_call) THEN "parse" ELSE "turns"
    /\ UNCHANGED <<text_format, attempt, parsed_obj, n_parse, n_finalize, toolVars, notSearch>>

\* lines 690-731: the parse-only pass when a schema was passed (a parse that
\* raises leaves parsed_obj None), then the returns
ParsePass ==
    /\ spc = "parse"
    /\ \E po \in {None, Some("object")} :
          /\ parsed_obj' = IF text_format THEN po ELSE None
          /\ n_parse' = IF text_format THEN n_parse + 1 ELSE n_parse
          /\ spc' = IF (text_format /\ parsed_obj' # None) \/ final_text # ""
                    THEN "returned" ELSE "finalize"
    /\ requests' = IF text_format THEN Append(requests, SentRequest("parse")) ELSE requests
    /\ UNCHANGED <<text_format, attempt, turn, had_tool_call, final_text, n_finalize,
                   messages, pending, notSearch>>

\* lines 733-746: the finalize call; when it raises the attempt is over
Finalize ==
    /\ spc = "finalize"
    /\ \/ /\ spc' = "attempt_over"
          /\ UNCHANGED <<final_text, n_finalize, messages, requests>>
       \/ \E text2 \in Texts :
             /\ n_finalize' = n_finalize + 1
             /\ final_text' = text2
             /\ requests' = Append(requests, SentRequest("finalize"))
             /\ messages' = Append(messages, OutputItem("message", None, 0))
             /\ spc' = IF text_format THEN "reparse"
                       ELSE IF text2 # "" THEN "returned" ELSE "attempt_over"
    /\ UNCHANGED <<text_format, attempt, turn, had_tool_call, parsed_obj, n_parse,
                   pending, notSearch>>

\* lines 747-780: the second parse and the returns after it
Reparse ==
    /\ spc = "reparse"
    /\ n_parse' = n_parse + 1
    /\ \E parsed2 \in {None, Some("object")} :
          /\ parsed_obj' = parsed2
          /\ spc' = IF parsed2 # None \/ final_text # "" THEN "returned" ELSE "attempt_over"
    /\ requests' = Append(requests, SentRequest("parse"))
    /\ UNCHANGED <<text_format, attempt, turn, had_tool_call, final_text, n_finalize,
                   messages, pending, notSearch>>

\* lines 784-791 and the for of line 622: the next attempt, or the return
\* of the last one
NextAttempt ==
    /\ spc = "attempt_over"
    /\ IF attempt < max_attempts
       THEN /\ attempt' = attempt + 1
            /\ spc' = "turns"
            /\ turn' = 0
            /\ had_tool_call' = FALSE
            /\ final_text' = ""
            /\ parsed_obj' = None
            /\ n_parse' = 0
            /\ n_finalize' = 0
            /\ messages' = <<>>
            /\ requests' = <<>>
       ELSE /\ spc' = "returned"
            /\ UNCHANGED <<attempt, turn, had_tool_call, final_text, parsed_obj,
                           n_parse, n_finalize, messages, requests>>
    /\ UNCHANGED <<text_format, pending, notSearch>>

SearchNext ==
    \/ ModelTurn
    \/ ParsePass
    \/ Finalize
    \/ Reparse
    \/ NextAttempt

\* every call of the client returns or raises, so a step that can be taken
\* is taken
SpecSearch == InitSearch /\ [][SearchNext]_vars /\ WF_vars(SearchNext)

SearchBounds ==
    /\ attempt <= max_attempts
    /\ turn <= max_turns
    /\ (spc = "turns" /\ turn > 0) => had_tool_call
    /\ n_parse <= 2
    /\ n_finalize <= 1
    /\ n_parse = 2 => n_finalize = 1

\* C30: run_with_search always terminates; an attempt makes at most 8 model
\* turns and leaves the turn loop at the first turn without a function call,
\* then makes at most one parse-only pass, one finalize call and one re-parse;
\* there are at most 3 attempts, and a further attempt starts only after one
\* that ended with empty final text and no parsed object.
C30_SearchTerminates ==
    /\ []SearchBounds
    /\ [][attempt' # attempt => (final_text = "" /\ parsed_obj = None)]_vars
    /\ <>(spc \in {"returned", "raised"})

\* the third attempt used all its turns, both parses and the finalize call,
\* and returned
C30_Witness ==
    /\ spc = "returned"
    /\ attempt = max_attempts
    /\ turn = max_turns
    /\ n_parse = 2
    /\ n_finalize = 1

----------------------------------------------------------------------------
(* update_promises.py lines 812-841: an Update insert that fails *)

\* C31: when the insert of a request's Update row fails (the request is
\* consumed and no Update row is added), no claim's date_past changes, no
\* Follow-up that existed gets processed_at or processed_update_id, and the
\* worker stays in the request loop for the next request.
C31_FailedInsertHasNoEffects ==
    [][\A w \in Workers :
          (/\ pc[w] = "process"
           /\ reqs[w] # <<>>
           /\ reqs'[w] = Tail(reqs[w])
           /\ updates' = updates)
          => /\ claims' = claims
             /\ \A j \in 1..Len(followups) : followups'[j] = followups[j]
             /\ pc'[w] = "process"]_vars

\* the endpoint request of a promise was answered with a follow-up proposal
\* that was stored, the Update insert failed, and the promise is still not
\* date_past
C31_Witness ==
    \E c \in ClaimIds, j \in 1..Len(followups) :
        /\ claims[c].type = "promise"
        /\ IsSome(claims[c].completion_condition_date)
        /\ Val(claims[c].completion_condition_date) <= today
        /\ ~claims[c].date_past
        /\ followups[j].claim_id = c
        /\ followups[j].model_output = "model"
        /\ followups[j].created_at = normalize_datetime(utcnow)
        /\ ~\E i \in 1..Len(updates) : updates[i].claim_id = c

----------------------------------------------------------------------------
(* The daily pipeline with Update inserts that may fail *)

MaxSlots == 3

\* promises stored on day 0 with their deadline ahead
RetryTemplates ==
    {cl \in DailyTemplates : Val(cl.completion_condition_date) >= 0 /\ cl.article_date > -90}

InitRetry ==
    /\ InitUpd
    /\ \E cl \in RetryTemplates : claims = [NoWork EXCEPT ![1] = cl]
    /\ InitLease
    /\ InitExtract
    /\ InitPure
    /\ InitNoPoll
    /\ InitRest

\* lines 812-821: insert_one raises for the request; it is logged and the
\* loop goes on
DailyInsertFails ==
    /\ pc[1] = "process"
    /\ reqs[1] # <<>>
    /\ reqs' = [reqs EXCEPT ![1] = Tail(@)]
    /\ UNCHANGED <<pureVars, pollVars, restVars, today, wallday, hour, claims, followups,
                   updates, pc, promises, ap, runs, snap, leaseVars, extractVars>>

RetryNext ==
    \/ DailyStart
    \/ DailyAutoplan
    \/ Drain(1)
    \/ DailyProcess
    \/ DailyInsertFails
    \/ Finish(1)
    \/ DailyTick

\* the scheduler starts the run of every slot and a started run goes on
SpecRetry == InitRetry /\ [][RetryNext]_vars /\ WF_vars(RetryNext)

\* the follow_up_date of row j has been reached
DateReached(j) ==
    j <= Len(followups) /\ followups[j].follow_up_date <= normalize_dates(today)

\* C32: a Follow-up left unprocessed on its follow_up_date is selected again
\* by a run on a later pipeline date, so while runs continue every Follow-up
\* whose date has been reached is eventually processed.
C32_ReachedFollowupEventuallyProcessed ==
    \A j \in 1..MaxSlots :
        DateReached(j) ~> (j <= Len(followups) /\ IsSome(followups[j].processed_at))

----------------------------------------------------------------------------
(* update_promises.py _classify_verdict: a text is its sequence of          *)
(* characters                                                              *)

MaxWords == 3

\* the words narrative texts are made of
Words ==
    {<<"n", "o", "t">>,
     <<"m", "e", "t">>,
     <<"M", "e", "t">>,
     <<"c", "o", "m", "p", "l", "e", "t", "e">>,
     <<"f", "u", "l", "f", "i", "l", "l", "e", "d">>,
     <<"p", "r", "o", "g", "r", "e", "s", "s">>,
     <<"o", "n", "g", "o", "i", "n", "g">>,
     <<"f", "a", "i", "l">>,
     <<"t", "a", "r", "g", "e", "t">>}

CompleteKeywords ==
    {<<"c", "o", "m", "p", "l", "e", "t", "e">>,
     <<"f", "u", "l", "f", "i", "l", "l", "e", "d">>,
     <<"s", "u", "c", "c", "e", "e", "d", "e", "d">>,
     <<"m", "e", "t">>}

ProgressKeywords ==
    {<<"i", "n", " ", "p", "r", "o", "g", "r", "e", "s", "s">>,
     <<"i", "n", "_", "p", "r", "o", "g", "r", "e", "s", "s">>,
     <<"p", "r", "o", "g", "r", "e", "s", "s">>,
     <<"o", "n", "g", "o", "i", "n", "g">>}

FailedKeywords ==
    {<<"f", "a", "i", "l">>,
     <<"f", "a", "i", "l", "e", "d">>,
     <<"n", "o", "t", " ", "m", "e", "t">>,
     <<"n", "o", "t", " ", "f", "u", "l", "f", "i", "l", "l", "e", "d">>,
     <<"d", "i", "d", " ", "n", "o", "t">>}

\* the words of a sentence joined by single spaces
RECURSIVE Join(_)
Join(ws) ==
    IF ws = <<>> THEN <<>>
    ELSE IF Len(ws) = 1 THEN Head(ws)
    ELSE Head(ws) \o <<" ">> \o Join(Tail(ws))

\* str.lower() on the characters of the texts
lower_text(t) == [i \in 1..Len(t) |-> IF t[i] = "M" THEN "m" ELSE t[i]]

\* k in t
Contains(t, k) ==
    \E i \in 0..(Len(t) - Len(k)) : SubSeq(t, i + 1, i + Len(k)) = k

_classify_verdict(text) ==
    LET t == lower_text(text)
    IN  IF \E k \in CompleteKeywords : Contains(t, k) THEN "complete"
        ELSE IF \E k \in ProgressKeywords : Contains(t, k) THEN "in_progress"
        ELSE IF \E k \in FailedKeywords : Contains(t, k) THEN "failed"
        ELSE "in_progress"

\* a narrative text of up to MaxWords words, no parsed object
InitVerdict ==
    /\ InitUpd
    /\ claims = NoWork
    /\ InitLease
    /\ InitExtract
    /\ \E n \in 1..MaxWords : \E ws \in [1..n -> Words] :
          fin = [words |-> ws, text |-> Join(ws)]
    /\ fout = NoCall
    /\ InitNoPoll
    /\ InitRest

\* update_promises.py line 673
CallClassify ==
    /\ fout.fn = "none"
    /\ fout' = [fn |-> "_classify_verdict", val |-> _classify_verdict(fin.text)]
    /\ UNCHANGED <<fin, pollVars, restVars, updVars, leaseVars, extractVars>>

SpecVerdict == InitVerdict /\ [][CallClassify]_vars

HasWord(ws, w) == \E i \in 1..Len(ws) : lower_text(ws[i]) = w

\* "not met" as a phrase, and "met" outside of it
HasNotMet(ws) ==
    \E i \in 1..(Len(ws) - 1) : ws[i] = <<"n", "o", "t">> /\ lower_text(ws[i + 1]) = <<"m", "e", "t">>

HasPlainMet(ws) ==
    \E i \in 1..Len(ws) :
        /\ lower_text(ws[i]) = <<"m", "e", "t">>
        /\ ~(i > 1 /\ ws[i - 1] = <<"n", "o", "t">>)

SaysComplete(ws) ==
    HasWord(ws, <<"c", "o", "m", "p", "l", "e", "t", "e">>) \/ HasWord(ws, <<"f", "u", "l", "f", "i", "l", "l", "e", "d">>) \/ HasPlainMet(ws)

SaysProgress(ws) ==
    HasWord(ws, <<"p", "r", "o", "g", "r", "e", "s", "s">>) \/ HasWord(ws, <<"o", "n", "g", "o", "i", "n", "g">>)

SaysFailed(ws) ==
    HasWord(ws, <<"f", "a", "i", "l">>) \/ HasNotMet(ws)

\* C33: without a parsed output the verdict of a narrative text is complete
\* when it says "complete", "fulfilled" or "met", otherwise in_progress when
\* it says "progress" or "ongoing", otherwise failed when it says "fail" or
\* "not met"; a text whose only keyword phrase is "not met" is failed.
C33_KeywordVerdict ==
    fout.fn = "_classify_verdict" =>
        /\ SaysComplete(fin.words) => fout.val = "complete"
        /\ (~SaysComplete(fin.words) /\ SaysProgress(fin.words)) => fout.val = "in_progress"
        /\ (~SaysComplete(fin.words) /\ ~SaysProgress(fin.words) /\ SaysFailed(fin.words))
              => fout.val = "failed"

----------------------------------------------------------------------------
(* enrich_articles.py: the lease of an enriched article *)

\* C34: an article the enrichment stage leased and enriched, by the batch
\* (Mode A) or by the per-article fallback (Mode B), has its enrichment
\* fields stored and no enrich_lock field.
C34_EnrichedArticleUnlocked ==
    \A d \in enriched : d \in edocs /\ d \notin enrich_lock

----------------------------------------------------------------------------
(* llm_web.py lines 643-720: the conversation of the tool loop *)

\* the types of the output items a response may carry, in order
Outputs ==
    { <<"message">>,
      <<"function_call">>,
      <<"function_call", "message", "function_call">> }

\* the output of the n-th response: every function_call item has its own call_id
response_output(types, n) ==
    [i \in 1..Len(types) |->
        OutputItem(types[i], IF types[i] = "function_call" THEN Some(<<n, i>>) ELSE None, n)]

\* mutant: the tool output is appended without the call_id of its item
function_call_output_noid(item) ==
    OutputItem("function_call_output", None, item.turn)

\* lines 678-682: the message appended for a handled function_call item
function_call_output(item) ==
    OutputItem("function_call_output", item.call_id, item.turn)

IsFunctionCall(item) ==
    item.type = "function_call"

\* lines 645-657: one responses.create of the turn loop with the conversation
\* so far as input; its output items are appended to the conversation
CreateResponse ==
    /\ spc = "turns"
    /\ \/ /\ spc' = "raised"
          /\ UNCHANGED <<turn, had_tool_call, final_text, toolVars>>
       \/ \E types \in Outputs :
             LET output == response_output(types, turn + 1) IN
             /\ requests' = Append(requests, SentRequest("create"))
             /\ messages' = messages \o output
             /\ pending' = SelectSeq(output, IsFunctionCall)
             /\ had_tool_call' = FALSE
             /\ turn' = turn + 1
             /\ final_text' = final_text
             /\ spc' = "tools"
    /\ UNCHANGED <<text_format, attempt, parsed_obj, n_parse, n_finalize, notSearch>>

\* lines 660-682: the next function_call item of the response is handled and
\* its output appended; a tool that raises leaves run_with_search
HandleToolCall ==
    /\ spc = "tools"
    /\ pending # <<>>
    /\ had_tool_call' = TRUE
    /\ \/ /\ spc' = "raised"
          /\ UNCHANGED toolVars
       \/ /\ messages' = Append(messages, function_call_output(Head(pending)))
          /\ pending' = Tail(pending)
          /\ UNCHANGED <<spc, requests>>
    /\ UNCHANGED <<text_format, attempt, turn, final_text, parsed_obj, n_parse, n_finalize,
                   notSearch>>

\* lines 644, 684-690: the items of the response are through; the loop goes
\* on to the next turn, or ends and the text of the last response is extracted
EndTurn ==
    /\ spc = "tools"
    /\ pending = <<>>
    /\ IF TurnLoopEnds(turn, had_tool_call)
       THEN /\ spc' = "parse"
            /\ final_text' \in IF \E k \in 1..Len(messages) :
                                     messages[k].type = "message" /\ messages[k].turn = turn
                               THEN Texts ELSE {""}
       ELSE /\ spc' = "turns"
            /\ final_text' = final_text
    /\ UNCHANGED <<text_format, attempt, turn, had_tool_call, parsed_obj,
                   n_parse, n_finalize, toolVars, notSearch>>

ToolsNext ==
    \/ CreateResponse
    \/ HandleToolCall
    \/ EndTurn
    \/ ParsePass
    \/ Finalize
    \/ Reparse
    \/ NextAttempt

SpecTools == InitSearch /\ [][ToolsNext]_vars

\* the positions of the tool outputs of the conversation carrying a call_id
OutputsFor(call_id) ==
    {j \in 1..Len(messages) :
        messages[j].type = "function_call_output" /\ messages[j].call_id = call_id}

\* the function_call item at position i has one tool output with its call_id,
\* placed after all output items of its response and inside the input of the
\* request that followed its turn
AnsweredIn(i, input) ==
    /\ Cardinality(OutputsFor(messages[i].call_id)) = 1
    /\ \A j \in OutputsFor(messages[i].call_id) :
          /\ j <= input
          /\ \A k \in 1..Len(messages) :
                (messages[k].turn = messages[i].turn /\ messages[k].type # "function_call_output")
                    => k < j

\* the turn loop had ended when request i was sent: the turn before it was
\* the last of the range or its response had no function_call item
LoopEndedBefore(i) ==
    /\ i > 1
    /\ requests[i - 1].kind = "create"
    /\ \/ i - 1 = max_turns
       \/ \A k \in 1..requests[i].input :
             ~(IsFunctionCall(messages[k]) /\ messages[k].turn = i - 1)

\* C35: within each turn of the tool loop every function_call item of the
\* response gets exactly one function_call_output message with the same
\* call_id, appended after the response's output items and before the next
\* request is sent, and the parse-only request is sent only after the turn
\* loop has ended.
C35_ToolCallsAnsweredBeforeNextRequest ==
    /\ \A i \in 1..Len(messages) :
          IsFunctionCall(messages[i]) =>
              /\ Cardinality(OutputsFor(messages[i].call_id)) <= 1
              /\ Len(requests) > messages[i].turn
                     => AnsweredIn(i, requests[messages[i].turn + 1].input)
    /\ \A i \in 1..Len(requests) :
          (requests[i].kind = "parse" /\ n_finalize = 0) => LoopEndedBefore(i)

\* a response with two function calls around a message item was answered in
\* the next request, and the parse-only request followed a later turn
C35_Witness ==
    /\ \E i \in 1..Len(requests) :
          /\ requests[i].kind = "create"
          /\ Cardinality({k \in 1..requests[i].input :
                             messages[k].type = "function_call_output"
                             /\ messages[k].turn = i - 1}) = 2
    /\ \E i \in 1..Len(requests) : requests[i].kind = "parse" /\ i > 2

----------------------------------------------------------------------------
(* generate_roundups.py lines 69-234: the seed list of a roundup *)

MaxNested == 13
MaxPeriodArticles == 24
SeedLimit == 20

RoundupTypes == {"daily", "weekly", "monthly", "yearly"}

Smaller(a, b) == IF a < b THEN a ELSE b

\* lines 137-144: the lower tier of a roundup type and how many of its
\* roundups are included
target_cnt(rtype) ==
    CASE rtype = "weekly" -> 7
      [] rtype = "monthly" -> 4
      [] rtype = "yearly" -> 12
      [] OTHER -> 0

\* lines 130-180: the first target_cnt lower-tier roundups stored inside the
\* period, by period_start
_collect_nested_roundups(rtype, stored) ==
    [i \in 1..Smaller(stored, target_cnt(rtype)) |-> [kind |-> "roundup", rank |-> i]]

\* lines 69-127: the limit best-scored articles of the period, best first
_collect_news_seed_articles(in_period, limit) ==
    [i \in 1..Smaller(in_period, limit) |-> [kind |-> "article", rank |-> i]]

\* lines 213-216: nested roundups first, then articles up to 20 entries
RoundupSeed(rtype, stored, in_period) ==
    LET nested == _collect_nested_roundups(rtype, stored)
        remaining == IF SeedLimit - Len(nested) > 0 THEN SeedLimit - Len(nested) ELSE 0
        seed_articles == IF remaining # 0
                         THEN _collect_news_seed_articles(in_period, remaining) ELSE <<>>
    IN  nested \o seed_articles

\* lines 225-226: the count of the period's articles less the length of the
\* seed list, not below zero
omitted_count(total_count, seed) ==
    IF total_count - Len(seed) > 0 THEN total_count - Len(seed) ELSE 0

InitSeed ==
    /\ InitUpd
    /\ claims = NoWork
    /\ InitLease
    /\ InitExtract
    /\ \E rtype \in RoundupTypes, stored \in 0..MaxNested, n \in 0..MaxPeriodArticles :
          fin = [rtype |-> rtype, stored |-> stored, total |-> n]
    /\ fout = NoCall
    /\ InitNoPoll
    /\ InitRest

\* lines 212-232: _generate_roundup up to the prompt it sends
CallGenerateRoundup ==
    /\ fout.fn = "none"
    /\ LET seed == RoundupSeed(fin.rtype, fin.stored, fin.total) IN
       fout' = [fn |-> "_generate_roundup",
                val |-> [seed |-> seed, omitted_count |-> omitted_count(fin.total, seed)]]
    /\ UNCHANGED <<fin, pollVars, restVars, updVars, leaseVars, extractVars>>

SpecSeed == InitSeed /\ [][CallGenerateRoundup]_vars

ArticleSeeds(seed) == {i \in 1..Len(seed) : seed[i].kind = "article"}

NestedFirst(seed) ==
    \A i, j \in 1..Len(seed) :
        (seed[i].kind = "roundup" /\ seed[j].kind = "article") => i < j

\* C36: for every generated roundup the seed list has at most 20 entries
\* with the nested lower-tier roundups first, and the omitted count given to
\* the model equals the number of the period's articles that are not among
\* the selected article seeds.
C36_SeedAndOmittedCount ==
    fout.fn = "_generate_roundup" =>
        /\ Len(fout.val.seed) <= SeedLimit
        /\ NestedFirst(fout.val.seed)
        /\ fout.val.omitted_count = fin.total - Cardinality(ArticleSeeds(fout.val.seed))

\* the part of C36 that holds: the bound, the order, and the omitted count
\* of a roundup without nested roundups
C36_SeedBoundedAndOrdered ==
    fout.fn = "_generate_roundup" =>
        /\ Len(fout.val.seed) <= SeedLimit
        /\ NestedFirst(fout.val.seed)
        /\ Len(fout.val.seed) = Cardinality(ArticleSeeds(fout.val.seed))
              => fout.val.omitted_count = fin.total - Len(fout.val.seed)

----------------------------------------------------------------------------
(* util/locks.py lines 32-36: release_lock beside acquire_lock *)

\* the record that a granted lease was released by the worker it was granted to
Released(g) ==
    [worker |-> g.worker, doc |-> g.doc, locked_at |-> g.locked_at, released |-> TRUE]

\* the leases granted to a worker that it has not released yet
Unreleased(w) ==
    {g \in grants : /\ "released" \notin DOMAIN g
                    /\ g.worker = w
                    /\ Released(g) \notin grants}

\* lines 32-36 and claim_process.py lines 535-545: a worker that was granted
\* the lease on a document applies the document's output and releases the
\* lock, once; the update is keyed by _id alone and unsets the field whoever
\* its owner is; last records the call
ReleaseLock(w) ==
    /\ lnow[w] = None
    /\ \E g \in Unreleased(w) :
          /\ lock' = [lock EXCEPT ![g.doc] = None]
          /\ grants' = grants \cup {Released(g)}
          /\ last' = [worker |-> w, doc |-> g.doc, now |-> clock, pre |-> lock[g.doc],
                      ok |-> FALSE, op |-> "release_lock"]
    /\ UNCHANGED <<pureVars, pollVars, restVars, clock, ticks, lnow, updVars, extractVars>>

ReleaseNext ==
    \/ \E w \in Workers : AcquireRead(w) \/ AcquireCAS(w)
    \/ \E w \in Workers : ReleaseLock(w)
    \/ Elapse

SpecRelease == InitServices /\ [][ReleaseNext]_vars

\* C37: a lease is only ever removed by the worker recorded as its owner (an
\* expired lease is not removed, it is overwritten by the next acquire): a
\* release_lock of a worker whose lease expired and was acquired by another
\* worker does not remove the new holder's lease.
C37_LeaseRemovedOnlyByOwner ==
    [][\A d \in LeaseDocs :
          (IsSome(lock[d]) /\ ~IsSome(lock'[d])) => Val(lock[d]).owner = last'.worker]_vars

\* a worker released the lease it held itself
C37_OwnRelease ==
    /\ last.worker # 0
    /\ ~last.ok
    /\ IsSome(last.pre)
    /\ ~IsSome(lock[last.doc])
    /\ Val(last.pre).owner = last.worker

----------------------------------------------------------------------------
(* update_promises.py lines 187-222 and 259-298: the classifier against    *)
(* the materialized schedule                                               *)

\* the dates of a schedule before its last one
NonFinalDates(schedule) ==
    {schedule[i] : i \in 1..(Len(schedule) - 1)}

\* C38: the classifier and the materialized schedule agree: for every
\* promise and every pipeline date t strictly before end, claim_needs_update
\* returns REGULAR_INTERVAL if and only if t is one of the non-final dates
\* returned by compute_followup_schedule for that promise.
C38_ClassifierAgreesWithSchedule ==
    (fout.fn = "claim_needs_update" /\ fin.t < FinEnd) =>
        (fout.val = "REGULAR_INTERVAL"
            <=> fin.t \in NonFinalDates(compute_followup_schedule(fin.claim)))

\* the part of C38 that holds: the two agree on spans of at most 90 days
C38_AgreeUpToLongSpan ==
    (fout.fn = "claim_needs_update" /\ fin.t < FinEnd /\ FinSpan <= LongSpanDays) =>
        (fout.val = "REGULAR_INTERVAL"
            <=> fin.t \in NonFinalDates(compute_followup_schedule(fin.claim)))

----------------------------------------------------------------------------
(* update_promises.py lines 300-379 and 518-531: the deadline of a promise *)
(* is always planned                                                       *)

\* the promises whose deadline is on or after pipeline date t
OpenPromises(t) ==
    {c \in ClaimIds : /\ claims[c].type = "promise"
                      /\ IsSome(claims[c].completion_condition_date)
                      /\ Val(claims[c].completion_condition_date) >= t}

\* a Follow-up row of the claim on its completion_condition_date
HasDeadlineFollowup(c) ==
    \E i \in 1..Len(followups) :
        /\ followups[i].claim_id = c
        /\ followups[i].follow_up_date
              = normalize_dates(Val(claims[c].completion_condition_date))

\* C39: after an update_promises run on pipeline date t has completed, every
\* promise with completion_condition_date on or after t (date_past is set
\* only by a run that reached the deadline, so these include every promise
\* that had date_past unset or false when the run started) has a Follow-up
\* row whose follow_up_date equals its completion_condition_date.
C39_DeadlineFollowupPlanned ==
    (pc[1] = "idle" /\ IsSome(snap.day)) =>
        \A c \in OpenPromises(Val(snap.day)) : HasDeadlineFollowup(c)

\* a run on the deadline day of a promise completed, no run had seen the
\* promise before that day, and the deadline has its Follow-up row
C39_Witness ==
    /\ pc[1] = "idle"
    /\ snap.day = Some(1)
    /\ runs = 1
    /\ \E c \in OpenPromises(1) :
          /\ ~claims[c].date_past
          /\ HasDeadlineFollowup(c)

----------------------------------------------------------------------------
(* models.py lines 63-80: Date_Delta._resolve_date on calendar dates *)

MaxDaysDelta == 2
MaxWeeksDelta == 1
MaxMonthsDelta == 2
MaxYearsDelta == 1

\* the year the from_date of a Date_Delta is drawn from (a leap year)
FromYear == 2024

IsLeapYear(y) ==
    y % 4 = 0 /\ (y % 100 # 0 \/ y % 400 = 0)

DaysInMonth(y, m) ==
    IF m = 2 THEN (IF IsLeapYear(y) THEN 29 ELSE 28)
    ELSE IF m \in {4, 6, 9, 11} THEN 30
    ELSE 31

CalendarDate(y, m, d) == [year |-> y, month |-> m, day |-> d]

\* a date that datetime.date accepts
ValidDate(y, m, d) ==
    m \in 1..12 /\ d \in 1..DaysInMonth(y, m)

RECURSIVE DaysBeforeMonth(_, _)
DaysBeforeMonth(y, m) ==
    IF m = 1 THEN 0 ELSE DaysBeforeMonth(y, m - 1) + DaysInMonth(y, m - 1)

RECURSIVE DaysBeforeYear(_)
DaysBeforeYear(y) ==
    IF y = FromYear THEN 0
    ELSE DaysBeforeYear(y - 1) + DaysBeforeMonth(y - 1, 12) + 31

\* date.toordinal(), counted from the first day of FromYear
toordinal(date) ==
    DaysBeforeYear(date.year) + DaysBeforeMonth(date.year, date.month) + date.day

RECURSIVE fromordinal_from(_, _, _)
fromordinal_from(y, m, n) ==
    IF n <= DaysInMonth(y, m) THEN CalendarDate(y, m, n)
    ELSE IF m = 12 THEN fromordinal_from(y + 1, 1, n - DaysInMonth(y, m))
    ELSE fromordinal_from(y, m + 1, n - DaysInMonth(y, m))

\* date.fromordinal()
fromordinal(n) ==
    fromordinal_from(FromYear, 1, n)

\* date + timedelta(days=n)
add_timedelta(date, n) ==
    fromordinal(toordinal(date) + n)

\* a value returned, or ValueError raised
Returned(date) == [raised |-> FALSE, value |-> date]
ValueError(date) == [raised |-> TRUE, value |-> date]

\* date.replace(year=y, month=m): ValueError when the fields do not form a date
replace(date, y, m) ==
    IF ValidDate(y, m, date.day)
    THEN Returned(CalendarDate(y, m, date.day))
    ELSE ValueError(date)

\* lines 70-80: days and weeks are added as timedeltas; months and years are
\* added to the month and year fields with replace()
_resolve_date(dd) ==
    LET d1 == add_timedelta(dd.from_date, dd.days_delta)
        d2 == add_timedelta(d1, 7 * dd.weeks_delta)
        r3 == IF dd.months_delta # 0
              THEN replace(d2, d2.year, d2.month + dd.months_delta)
              ELSE Returned(d2)
    IN  IF r3.raised THEN r3
        ELSE IF dd.years_delta # 0
             THEN replace(r3.value, r3.value.year + dd.years_delta, r3.value.month)
             ELSE r3

InitResolve ==
    /\ InitUpd
    /\ claims = NoWork
    /\ InitLease
    /\ InitExtract
    /\ \E m \in 1..12 : \E d \in 1..DaysInMonth(FromYear, m) :
       \E days \in 0..MaxDaysDelta, weeks \in 0..MaxWeeksDelta,
          months \in 0..MaxMonthsDelta, years \in 0..MaxYearsDelta :
          fin = [from_date |-> CalendarDate(FromYear, m, d), days_delta |-> days,
                 weeks_delta |-> weeks, months_delta |-> months, years_delta |-> years]
    /\ fout = NoCall
    /\ InitNoPoll
    /\ InitRest

CallResolveDate ==
    /\ fout.fn = "none"
    /\ fout' = [fn |-> "_resolve_date", val |-> _resolve_date(fin)]
    /\ UNCHANGED <<fin, pollVars, restVars, updVars, leaseVars, extractVars>>

SpecResolve == InitResolve /\ [][CallResolveDate]_vars

\* the date after the days and weeks of the input were added as durations
AfterDurations ==
    add_timedelta(fin.from_date, fin.days_delta + 7 * fin.weeks_delta)

\* months counted from year 0
MonthIndex(date) == 12 * date.year + date.month

\* the returned date lies months_delta (and 12 per year of years_delta)
\* calendar months after the date reached by the days and weeks
MovedByDeltas ==
    /\ MonthIndex(fout.val.value)
          = MonthIndex(AfterDurations) + fin.months_delta + 12 * fin.years_delta
    /\ (fin.months_delta = 0 /\ fin.years_delta = 0) => fout.val.value = AfterDurations

\* C40: Date_Delta._resolve_date is total on valid inputs: for every valid
\* from_date and every combination of non-negative days, weeks, months and
\* years deltas it returns a date without raising, with days and weeks added
\* as durations and a months delta k moving the date k calendar months
\* forward.
C40_ResolveDateTotal ==
    fout.fn = "_resolve_date" =>
        /\ ~fout.val.raised
        /\ MovedByDeltas

\* the part of C40 that holds: a call that returns moved the date as stated,
\* and a call whose target month stays within the year and whose day exists
\* in every month returns
C40_ResolveDateWhenInRange ==
    fout.fn = "_resolve_date" =>
        /\ ~fout.val.raised => MovedByDeltas
        /\ (AfterDurations.month + fin.months_delta <= 12 /\ AfterDurations.day <= 28)
              => ~fout.val.raised

============================================================================
